---------------------------- MODULE Spec2Model ----------------------------
(***************************************************************************)
(* Model of the YouTube Tweaks userscript (src/main.js): the tweak         *)
(* composition and player lifecycle framework.                             *)
(*                                                                         *)
(* TweakedYouTubeApp owns the ordered tweak list and the list of tracked   *)
(* TweakedYouTubePlayer wrappers.  The script runs once at document-idle   *)
(* (the app constructor), after which the page's "yt-visibility-refresh"   *)
(* event runs refreshHandler.  Hooks of tweaks are calls into code the     *)
(* framework does not control: a hook either returns or throws, and since  *)
(* the framework has no try/catch a throw unwinds the whole handler.       *)
(***************************************************************************)
EXTENDS Integers, Sequences, FiniteSets, TLC

\* Bounds of the model.
MaxWidgets == 2     \* native widgets (html5-video-player elements) that exist
NumTweaks == 2      \* length of the tweak list handed to the app
MaxThrows == 1      \* hook invocations that throw over a behaviour
NumUIChildren == 1  \* children of a widget besides its video container
MaxTDs == 2         \* time displays the main widget creates
MaxHides == 3       \* hideUI calls in a row

Elements == 1..MaxWidgets

\* The tweaks the script instantiates, in the order of its array
\* (main.js:1156-1165); the model runs the first NumTweaks of them.
ShippedTweaks ==
    <<"SaveProgressOnURL", "MouseWheelVolumeControl",
      "MouseWheelPlaybackRateControl", "ModPlaybackRate",
      "DefaultPlaybackRate", "CustomPreferredQuality",
      "CustomKeyboardShortcuts", "EffectiveTimeDisplay">>

tweaks == SubSeq(ShippedTweaks, 1, NumTweaks)
TweakIds == {tweaks[i] : i \in 1..Len(tweaks)}

\* The element of the page that matches "#movie_player".
MoviePlayer == 1

\* The UI elements of a widget, and the values of their inline style.display
\* and of their oldDisplayStyle property (Undefined while never assigned).
UIChildren == 1..NumUIChildren
Displays == {"", "flex", "none"}
Undefined == "undefined"

\* EVENTS (main.js:45)
EVENTS == [INIT |-> "init", REFRESH |-> "refresh"]

VARIABLES
    defaultRate,    \* DefaultPlaybackRate.playbackRate, the default rate
    rateOf,         \* the playbackRate of the video of each widget
    rcPending,      \* the widgets whose video has a "ratechange" event queued
    rcBound,        \* the widgets whose video has the listener of DefaultPlaybackRate
    defInits,       \* the onPlayerInit runs of DefaultPlaybackRate in the last step
    saveBound,      \* how many times SaveProgressOnURL.bindListeners has started its listener and its interval
    progressSaved,  \* this.progressSaved of SaveProgressOnURL
    isWatchPage,    \* whether the path of the location starts with /watch
    hasVideo,       \* whether the main widget has its video element
    urlWrites,      \* rewrites of the URL since the last timeupdate of the main video
    saveTick,       \* parity of the number of runs of saveProgressOnUrl
    hideRun,        \* the hideUI calls in a row on the main player, the
                    \* styles before the first, and whether a showUI has
                    \* just ended them
    appState,       \* "none": script not run; "running": constructor returned;
                    \* "failed": constructor threw
    appTweaks,      \* this.tweaks of the app
    players,        \* this.players of the app: sequence of wrappers
    page,           \* document order of the html5-video-player elements
    listeners,      \* handlers registered for "yt-visibility-refresh"
    activeElement,  \* the widget that contains document.activeElement, or 0
    throwsLeft,     \* hook invocations that may still throw
    pass,           \* the lifecycle handler that has just run ("load",
                    \* "refresh"), "dropped" after a signal nothing handled,
                    \* "none" once anything else has happened
    trace,          \* the hook invocations of that handler, in order
    threw,          \* whether that handler was unwound by a throwing hook
    constructed,    \* wrappers ever constructed, per element
    display,        \* element.style.display of the UI elements of each widget
    oldDisplayStyle, \* element.oldDisplayStyle of the UI elements of each widget
    uiLast,         \* the UI operation that has just run, NoUI once anything
                    \* else has happened
    preHide,        \* per widget the style.display its UI elements had before
                    \* the last hideUI, <<>> once shown or changed natively
    videoRate,      \* video.playbackRate of the main player
    widgetRate,     \* the playback rate its native widget holds
    osd,            \* the rate its on-screen display shows
    volume,         \* the volume of its native widget
    adState,        \* element.getAdState(): -1 when no advertisement plays
    modded,         \* whether ModPlaybackRate.onPlayerEagerInit has replaced
                    \* its rate setter and its stepPlaybackRate
    playbackRates,  \* this.playbackRates of ModPlaybackRate
    timerRecent,    \* whether now - this.timerStart < 500
    mediaLast,      \* the rate or volume operation that has just run
    streak,         \* increase steps in a row since the rate was 1x
    currentTime,    \* element.getCurrentTime() of the main player, in seconds
    duration,       \* element.getDuration() of the main player, in seconds
    effText,        \* the texts of the children of its effective time display
    qualityLevels,  \* element.getAvailableQualityLevels() of the main player
    qualityRange,   \* the arguments of its last setPlaybackQualityRange
    qualityLast,    \* the quality operation that has just run
    retryArgs,      \* interval and maxTries a tweak called retryOnFail with
    retryTimer,     \* the timeout retryOnFail has pending, NoTimer if none
    retryCalls,     \* invocations of the callback so far
    retrySuccess,   \* whether an invocation of the callback reported success
    tweakObjects,   \* the tweak objects constructed so far
    newLast,        \* the construction or hook call that has just run
    apiKind,        \* what the main widget has under each name of its API
    handleLast,     \* the member read on the handle that has just been made
    timeDisplayEls, \* the native time displays of the main widget: whether
                    \* each exists, is in the document, and how many wheel
                    \* listeners MouseWheelPlaybackRateControl gave it
    tweakedTimeDisplays, \* this.tweakedTimeDisplays of
                    \* MouseWheelPlaybackRateControl
    tweakedTDs,     \* this.tweakedTDs of EffectiveTimeDisplay
    tdBound         \* the wrappers whose video has the listeners of
                    \* EffectiveTimeDisplay.bindListeners

appVars == <<appState, appTweaks, players, page, listeners, activeElement,
             throwsLeft, pass, trace, threw, constructed,
             display, oldDisplayStyle, uiLast, preHide>>

mediaVars == <<videoRate, widgetRate, osd, volume, adState, modded,
               playbackRates, timerRecent, mediaLast, streak>>

timeVars == <<currentTime, duration, effText>>

qualityVars == <<qualityLevels, qualityRange, qualityLast>>

retryVars == <<retryArgs, retryTimer, retryCalls, retrySuccess>>

classVars == <<tweakObjects, newLast>>

handleVars == <<apiKind, handleLast>>

tdVars == <<timeDisplayEls, tweakedTimeDisplays, tweakedTDs, tdBound>>

hideVars == <<hideRun>>

saveVars == <<saveBound, progressSaved, isWatchPage, hasVideo, urlWrites, saveTick>>

defaultVars == <<defaultRate, rateOf, rcPending, rcBound, defInits>>

tweakVars == <<timeVars, qualityVars, retryVars, classVars, handleVars,
              tdVars,
              hideVars,
              saveVars,
              defaultVars>>

\* The variables of the tweaks other than those of one group.
exceptTime == <<qualityVars, retryVars, classVars, handleVars, tdVars,
              hideVars,
              saveVars,
              defaultVars>>
exceptQuality == <<timeVars, retryVars, classVars, handleVars, tdVars,
              hideVars,
              saveVars,
              defaultVars>>
exceptRetry == <<timeVars, qualityVars, classVars, handleVars, tdVars,
              hideVars,
              saveVars,
              defaultVars>>
exceptClass == <<timeVars, qualityVars, retryVars, handleVars, tdVars,
              hideVars,
              saveVars,
              defaultVars>>
exceptHandle == <<timeVars, qualityVars, retryVars, classVars, tdVars,
              hideVars,
              saveVars,
              defaultVars>>
exceptTD == <<timeVars, qualityVars, retryVars, classVars, handleVars,
              hideVars,
              saveVars,
              defaultVars>>
exceptHide == <<timeVars, qualityVars, retryVars, classVars, handleVars, tdVars,
              saveVars,
              defaultVars>>
exceptSave == <<timeVars, qualityVars, retryVars, classVars, handleVars, tdVars, hideVars,
              defaultVars>>

vars == <<appVars, mediaVars, tweakVars>>

--------------------------------------------------------------------------
\* Helpers on sequences.

Range(s) == {s[i] : i \in 1..Len(s)}

IsInjective(s) == \A i, j \in 1..Len(s) : s[i] = s[j] => i = j

InsertAt(s, i, x) == SubSeq(s, 1, i - 1) \o <<x>> \o SubSeq(s, i, Len(s))

RemoveAt(s, i) == SubSeq(s, 1, i - 1) \o SubSeq(s, i + 1, Len(s))

IsPrefix(s, t) == Len(s) <= Len(t) /\ SubSeq(t, 1, Len(s)) = s

--------------------------------------------------------------------------
\* The hooks of the Tweak contract (main.js:421-458).
AppInitHooks == {"onAppEagerInit", "onAppInit"}
PlayerInitHooks == {"onPlayerEagerInit", "onPlayerInit"}

\* One invocation of a hook: the tweak, and the object it is handed (the app
\* is target 0 on element 0; a wrapper is its identity and its element).
Event(h, t, w, e) == [hook |-> h, tweak |-> t, target |-> w, element |-> e]

\* The state a handler works on while it runs: this.players, the number of
\* wrappers constructed so far for each element, the hook invocations made,
\* and per invocation what the handler had done when it was made.
Run(ps, cons) ==
    [players |-> ps, constructed |-> cons, trace |-> <<>>, atCall |-> <<>>]

\* tweak.<hook>(target): the invocation is recorded, with the state the handler
\* leaves behind if this invocation throws (nothing catches it: every
\* enclosing loop and function is unwound and no later statement runs).
CallHook(st, h, t, w, e) ==
    [st EXCEPT !.trace = Append(st.trace, Event(h, t, w, e)),
               !.atCall = Append(st.atCall,
                   [players |-> st.players,
                    constructed |-> st.constructed])]

\* The throw that is caught around the hook: the handler goes on and does
\* all it does when every hook returns.
Outcome_WrapperKept(full, k) ==
    [players |-> full.players, constructed |-> full.constructed,
     trace |-> IF k = 0 THEN full.trace ELSE SubSeq(full.trace, 1, k),
     threw |-> k # 0]

\* The throw that leaves no sign: the handler ends at the hook and what
\* follows the handler goes on as after a return.
Outcome_Swallowed(full, k) ==
    IF k = 0
    THEN [players |-> full.players, constructed |-> full.constructed,
          trace |-> full.trace, threw |-> FALSE]
    ELSE [players |-> full.atCall[k].players,
          constructed |-> full.atCall[k].constructed,
          trace |-> SubSeq(full.trace, 1, k), threw |-> FALSE]

\* What a handler leaves behind when its k-th hook invocation throws, and when
\* none does (k = 0), given its run with hooks that all return.
Outcome(full, k) ==
    IF k = 0
    THEN [players |-> full.players, constructed |-> full.constructed,
          trace |-> full.trace, threw |-> FALSE]
    ELSE [players |-> full.atCall[k].players,
          constructed |-> full.atCall[k].constructed,
          trace |-> SubSeq(full.trace, 1, k), threw |-> TRUE]

\* The loop over the tweaks taken from the end of the array.
RECURSIVE ForEachTweak_Reversed(_, _, _, _, _, _)
ForEachTweak_Reversed(st, tw, i, h, w, e) ==
    IF i > Len(tw) THEN st
    ELSE ForEachTweak_Reversed(CallHook(st, h, tw[Len(tw) + 1 - i], w, e),
                               tw, i + 1, h, w, e)

\* for (const tweak of this.tweaks) tweak.<hook>(target), from index i on.
RECURSIVE ForEachTweak(_, _, _, _, _, _)
ForEachTweak(st, tw, i, h, w, e) ==
    IF i > Len(tw) THEN st
    ELSE ForEachTweak(CallHook(st, h, tw[i], w, e), tw, i + 1, h, w, e)

\* TweakedYouTubeApp.applyEagerTweaks
App_applyEagerTweaks(st, tw) == ForEachTweak(st, tw, 1, "onAppEagerInit", 0, 0)

\* TweakedYouTubeApp.applyTweaks(event)
App_applyTweaks(st, tw, event) ==
    IF event = EVENTS.INIT THEN ForEachTweak(st, tw, 1, "onAppInit", 0, 0)
    ELSE IF event = EVENTS.REFRESH
         THEN ForEachTweak(st, tw, 1, "onAppRefresh", 0, 0)
         ELSE st

\* TweakedYouTubePlayer.applyEagerTweaks
Player_applyEagerTweaks(st, p) ==
    ForEachTweak(st, p.tweaks, 1, "onPlayerEagerInit", p.id, p.element)

\* TweakedYouTubePlayer.applyTweaks(event)
Player_applyTweaks(st, p, event) ==
    IF event = EVENTS.INIT
    THEN ForEachTweak(st, p.tweaks, 1, "onPlayerInit", p.id, p.element)
    ELSE IF event = EVENTS.REFRESH
         THEN ForEachTweak(st, p.tweaks, 1, "onPlayerRefresh", p.id, p.element)
         ELSE st

\* The wrapper object new TweakedYouTubePlayer(element, tweaks) allocates; id
\* tells the wrappers constructed for one element apart (the n-th has id n).
Wrapper(id, element, tw) ==
    [id |-> id, element |-> element, tweaks |-> tw,
     isUIEnabled |-> TRUE, ignoreNextUIMutation |-> FALSE]

\* The constructor with its two fan-outs swapped.
Player_constructor_InitFirst(st, p) ==
    LET s0 == [st EXCEPT !.constructed[p.element] = @ + 1]
        s1 == Player_applyTweaks(s0, p, EVENTS.INIT)
    IN  Player_applyEagerTweaks(s1, p)

\* TweakedYouTubePlayer.constructor: the fields, then the eager hooks of every
\* tweak, then the init hooks of every tweak.
Player_constructor(st, p) ==
    LET s0 == [st EXCEPT !.constructed[p.element] = @ + 1]
        s1 == Player_applyEagerTweaks(s0, p)
    IN  Player_applyTweaks(s1, p, EVENTS.INIT)

\* The membership test that compares wrappers with elements: never a match.
isNew_NoMatch(ps, element) == TRUE

\* this.players.find(e => (e.element === element)) finds nothing.
isNew(ps, element) == ~ \E i \in 1..Len(ps) : ps[i].element = element

\* TweakedYouTubeApp.updatePlayers, over the scanned elements from index i on.
RECURSIVE updatePlayersFrom(_, _, _, _)
updatePlayersFrom(st, els, tw, i) ==
    IF i > Len(els) THEN st
    ELSE LET element == els[i]
             player == Wrapper(st.constructed[element] + 1, element, tw)
             s1 == IF isNew(st.players, element)
                   THEN LET c == Player_constructor(st, player)
                        IN  [c EXCEPT !.players = Append(c.players, player)]
                   ELSE st
         IN  updatePlayersFrom(s1, els, tw, i + 1)

\* The scan that first drops the wrappers whose element has left the page.
updatePlayers_Evicting(st, els, tw) ==
    updatePlayersFrom(
        [st EXCEPT !.players =
            SelectSeq(st.players, LAMBDA p : p.element \in Range(els))],
        els, tw, 1)

\* The scan that looks at the first element only.
updatePlayers_FirstOnly(st, els, tw) ==
    IF els = <<>> THEN st ELSE updatePlayersFrom(st, <<els[1]>>, tw, 1)

updatePlayers(st, els, tw) == updatePlayersFrom(st, els, tw, 1)

\* for (const player of this.players) player.applyTweaks(EVENTS.REFRESH)
RECURSIVE RefreshPlayersFrom(_, _)
RefreshPlayersFrom(st, i) ==
    IF i > Len(st.players) THEN st
    ELSE RefreshPlayersFrom(
             Player_applyTweaks(st, st.players[i], EVENTS.REFRESH), i + 1)

\* The handler that fans the refresh out before it rescans the page.
refreshHandler_HooksFirst(st, els, tw) ==
    LET s1 == App_applyTweaks(st, tw, EVENTS.REFRESH)
        s2 == RefreshPlayersFrom(s1, 1)
    IN  updatePlayers(s2, els, tw)

\* TweakedYouTubeApp.refreshHandler
refreshHandler(st, els, tw) ==
    LET s1 == updatePlayers(st, els, tw)
        s2 == App_applyTweaks(s1, tw, EVENTS.REFRESH)
    IN  RefreshPlayersFrom(s2, 1)

\* TweakedYouTubeApp.focusedPlayer: the index in this.players of the first
\* wrapper whose element contains document.activeElement, 0 when there is none
\* (the getter then returns undefined).
focusedPlayer(ps, active) ==
    LET hits == {i \in 1..Len(ps) : ps[i].element = active}
    IN  IF hits = {} THEN 0
        ELSE CHOOSE i \in hits : \A j \in hits : i <= j

\* element.focus(): the focus moves into the element when it is in the document.
focus(element, active, els) ==
    IF element \in Range(els) THEN element ELSE active

\* The focusNextPlayer that stops at the last player.
focusNextPlayer_NoWrap(ps, active, els) ==
    LET numberOfPlayers == Len(ps)
        focusedPlayerIdx == focusedPlayer(ps, active) - 1
        nextIdx == IF focusedPlayerIdx + 1 >= numberOfPlayers
                   THEN numberOfPlayers - 1
                   ELSE focusedPlayerIdx + 1
    IN  IF numberOfPlayers = 0 THEN active
        ELSE focus(ps[nextIdx + 1].element, active, els)

\* TweakedYouTubeApp.focusNextPlayer: the new document.activeElement.  The
\* index of the code is 0-based, indexOf(undefined) is -1.
focusNextPlayer(ps, active, els) ==
    LET numberOfPlayers == Len(ps)
        focusedPlayerIdx == focusedPlayer(ps, active) - 1
        nextIdx == (focusedPlayerIdx + 1) % numberOfPlayers
    IN  IF numberOfPlayers = 0 THEN active
        ELSE focus(ps[nextIdx + 1].element, active, els)

\* The constructor that discovers the players before it runs the app hooks.
App_constructor_DiscoverFirst(st, els, tw) ==
    LET s1 == updatePlayers(st, els, tw)
        s2 == App_applyEagerTweaks(s1, tw)
    IN  App_applyTweaks(s2, tw, EVENTS.INIT)

\* TweakedYouTubeApp.mainPlayer: the index in this.players of the first
\* wrapper whose element matches "#movie_player", 0 when there is none.
mainPlayer(ps) == focusedPlayer(ps, MoviePlayer)

--------------------------------------------------------------------------
\* The UI of one wrapper.  A UI run holds the wrapper, the style.display and
\* the oldDisplayStyle of the UI elements of its widget, the UI elements with a
\* style mutation the MutationObservers of the widget have not delivered yet,
\* whether a wrapper whose constructor threw observes the widget as well, and
\* the methods called so far.
UIRun(p, disp, old, zombie) ==
    [player |-> p, display |-> disp, old |-> old, records |-> {},
     zombie |-> zombie, calls |-> <<>>]

Called(u, method) == [u EXCEPT !.calls = Append(u.calls, method)]

\* element.style.display = value over the UI elements: a mutation of the style
\* attribute is recorded for the elements whose value changes.
SetDisplays(u, new) ==
    [u EXCEPT !.display = new,
              !.records = u.records \cup {c \in UIChildren : new[c] # u.display[c]}]

\* TweakedYouTubePlayer.hideUI
hideUI(u) ==
    LET u0 == Called(u, "hideUI")
        u1 == [u0 EXCEPT !.player.ignoreNextUIMutation = TRUE,
                         !.old = [c \in UIChildren |-> u.display[c]]]
        u2 == SetDisplays(u1, [c \in UIChildren |-> "none"])
    IN  [u2 EXCEPT !.player.isUIEnabled = FALSE]

\* TweakedYouTubePlayer.showUI.  Assigning undefined to style.display is
\* dropped by the style parser; removeAttribute("oldDisplayStyle") removes an
\* attribute, the property of the same name stays.
showUI(u) ==
    LET u0 == Called(u, "showUI")
        u1 == [u0 EXCEPT !.player.ignoreNextUIMutation = TRUE]
        u2 == SetDisplays(u1, [c \in UIChildren |->
                  IF u1.old[c] = Undefined THEN u1.display[c] ELSE u1.old[c]])
    IN  [u2 EXCEPT !.player.isUIEnabled = TRUE]

\* TweakedYouTubePlayer.wakeUpControls; native tells whether the widget
\* exposes wakeUpControls at the time of the call.
wakeUpControls(u, native) ==
    IF ~native THEN Called(u, "wakeUpControls")
    ELSE Called(Called(u, "wakeUpControls"), "element.wakeUpControls")

\* The toggle that hides whatever the flag says.
toggleUI_AlwaysHide(u, native) == hideUI(Called(u, "toggleUI"))

\* TweakedYouTubePlayer.toggleUI
toggleUI(u, native) ==
    IF u.player.isUIEnabled THEN hideUI(Called(u, "toggleUI"))
    ELSE wakeUpControls(showUI(Called(u, "toggleUI")), native)

\* TweakedYouTubePlayer.UIMutationHandler on the batch of undelivered records.
UIMutationHandler(u) ==
    IF u.player.ignoreNextUIMutation
    THEN [u EXCEPT !.player.ignoreNextUIMutation = FALSE, !.records = {}]
    ELSE LET u1 == [u EXCEPT !.records = {},
                             !.old = [c \in UIChildren |->
                                 IF c \in u.records THEN u.display[c]
                                 ELSE u.old[c]]]
         IN  IF u.player.isUIEnabled THEN u1
             ELSE SetDisplays(u1, [c \in UIChildren |->
                      IF c \in u.records THEN "none" ELSE u1.display[c]])

\* UIMutationHandler of a wrapper whose constructor threw after it had
\* registered its observer: nothing reaches that wrapper, so its UI stays
\* enabled and its ignore flag unset, and it only records the styles.
ZombieMutationHandler(u) ==
    IF ~u.zombie THEN u
    ELSE [u EXCEPT !.old = [c \in UIChildren |->
                      IF c \in u.records THEN u.display[c] ELSE u.old[c]]]

\* The microtask checkpoint after a script: while there are undelivered
\* records the observers of the widget are notified in the order they were
\* created, the tracked wrapper's last.
RECURSIVE DeliverMutations(_)
DeliverMutations(u) ==
    IF u.records = {} THEN u
    ELSE DeliverMutations(UIMutationHandler(ZombieMutationHandler(u)))

\* CustomKeyboardShortcuts.eventHandler for a playerAction: the index of
\* this.app.focusedPlayer || this.app.mainPlayer, 0 when there is neither.
ShortcutPlayer(ps, active) ==
    IF focusedPlayer(ps, active) # 0 THEN focusedPlayer(ps, active)
    ELSE mainPlayer(ps)

--------------------------------------------------------------------------
\* The constructor that ends with a whole refresh instead of a discovery.
App_constructor_Refreshing(st, els, tw) ==
    LET s1 == App_applyEagerTweaks(st, tw)
        s2 == App_applyTweaks(s1, tw, EVENTS.INIT)
    IN  refreshHandler(s2, els, tw)

\* TweakedYouTubeApp.constructor up to the registration of the listener.
App_constructor(st, els, tw) ==
    LET s1 == App_applyEagerTweaks(st, tw)
        s2 == App_applyTweaks(s1, tw, EVENTS.INIT)
    IN  updatePlayers(s2, els, tw)

--------------------------------------------------------------------------
\* Playback rate and volume of one player.  Rates are in hundredths (1x is
\* 100), volumes in percent.

\* The ladder ModPlaybackRate uses when it is given none, the one of the
\* script (new ModPlaybackRate([])), and a configured ladder.
DefaultLadder ==
    <<10, 15, 20, 25, 50, 75, 100, 125, 150, 175, 200, 250, 300, 400, 500,
      600, 800, 1000>>
ConfiguredLadder == <<25, 50, 100, 200>>
Ladders == {DefaultLadder, ConfiguredLadder}

\* The rates the native widget steps through and accepts: its range is
\* 0.25 to 2 (main.js:671), in steps of 0.25.
NativeRates == {r \in 25..200 : r % 25 = 0}

\* The rates and volumes the operations are called with, and the sizes of the
\* native widget's volume step.
RateInputs == NativeRates \cup Range(DefaultLadder)
VolumeInputs == {0, 3, 5, 42, 50, 95, 98, 100}
VolumeSteps == {5, 10}
\* The directions stepVolume is called with, the signs and values beyond them.
Directions == {-2, -1, 0, 1, 2}
\* The deltaY of a wheel event: up, none (a horizontal scroll), down.
WheelDeltas == {-100, 0, 100}

\* Math.sign
Sign(x) == IF x > 0 THEN 1 ELSE IF x < 0 THEN -1 ELSE 0

\* Math.trunc of h / 2
TruncHalf(h) == IF h >= 0 THEN h \div 2 ELSE -((-h) \div 2)

Clamp(lo, hi, x) == IF x < lo THEN lo ELSE IF x > hi THEN hi ELSE x

\* The state an operation on the player works on: the rate of the media
\* element, the rate and the volume of the native widget, the text of the
\* on-screen display, the ad state, whether ModPlaybackRate's timer started
\* less than 500 ms ago, and the calls made on the widget so far.
MediaRun(video, widget, text, vol, ad, recent) ==
    [videoRate |-> video, widgetRate |-> widget, osd |-> text,
     volume |-> vol, adState |-> ad, timerRecent |-> recent, calls |-> <<>>]

Call(m, name, arg) ==
    [m EXCEPT !.calls = Append(m.calls, [call |-> name, arg |-> arg])]

\* The native widget handles a synthetic Shift+"," (188) or Shift+"." (190)
\* keydown: it moves its rate one native step and shows it.
NativeRateKey(m, keyCode) ==
    LET r == Clamp(25, 200,
                   m.widgetRate + (IF keyCode = 188 THEN -25 ELSE 25))
    IN  [Call(m, "keydown", keyCode) EXCEPT
            !.widgetRate = r, !.videoRate = r, !.osd = r]

\* The native widget handles a synthetic ArrowDown (40) or ArrowUp (38)
\* keydown: it moves its volume one step of the given size.
NativeVolumeKey(m, keyCode, step) ==
    [Call(m, "keydown", keyCode) EXCEPT
        !.volume = Clamp(0, 100,
                         m.volume + (IF keyCode = 40 THEN -step ELSE step))]

\* element.setPlaybackRate(value): the widget takes a rate it supports; for
\* another value it ends with one of its own, snapped.
NativeSetPlaybackRate(m, value, snapped) ==
    LET r == IF value \in NativeRates THEN value ELSE snapped
    IN  [Call(m, "setPlaybackRate", value) EXCEPT
            !.widgetRate = r, !.videoRate = r]

\* element.setVolume(value)
NativeSetVolume(m, value) ==
    [Call(m, "setVolume", value) EXCEPT !.volume = value]

\* stepVolume sending the key of volume-up for a direction of 1 only.
stepVolume_UpForOneOnly(m, direction, step) ==
    NativeVolumeKey(m, IF direction = 1 THEN 38 ELSE 40, step)

\* TweakedYouTubePlayer.stepVolume
stepVolume(m, direction, step) ==
    NativeVolumeKey(m, IF direction = -1 THEN 40 ELSE 38, step)

\* The selectors of TweakedYouTubePlayer.scrollableElements.
ScrollableSelectors == {"MENU", "VOLUME_SLIDER", "TIME_DISPLAY", "SIDE_DRAWER"}

\* TweakedYouTubePlayer.scrollableElements: one entry per selector, the
\* element the widget holds for it or null when it holds none.
scrollableElements(present) ==
    {IF sel \in present THEN sel ELSE "null" : sel \in ScrollableSelectors}

\* MouseWheelVolumeControl.eventHandler: nothing when the path of the event
\* holds one of the scrollable elements of the player (a path holds no
\* null), otherwise a step of the volume against the sign of deltaY.
MouseWheelVolumeControl_eventHandler(m, present, path, deltaY, step) ==
    IF \E scrollable \in scrollableElements(present) : scrollable \in path
    THEN m
    ELSE stepVolume(m, -Sign(deltaY), step)

\* TweakedYouTubePlayer: set volume(value)
Player_setVolume(m, value, step) ==
    LET direction == Sign(value - m.volume)
    IN  NativeSetVolume(stepVolume(m, direction, step), value)

\* TweakedYouTubePlayer.stepPlaybackRate
stepPlaybackRate(m, direction) ==
    NativeRateKey(m, IF direction = -1 THEN 188 ELSE 190)

\* this.OSDElement.innerText = value + "x"
SetOSD(m, value) == [Call(m, "OSDElement.innerText", value) EXCEPT !.osd = value]

\* TweakedYouTubePlayer: set playbackRate(value)
Player_setPlaybackRate(m, value, snapped) ==
    IF m.adState # -1 THEN m
    ELSE LET direction == Sign(value - m.videoRate)
             m1 == stepPlaybackRate(m, direction)
             m2 == SetOSD(m1, value)
         IN  NativeSetPlaybackRate(m2, value, snapped)

\* The modded setter without the check of the ad state.
moddedSetPlaybackRate_DuringAds(m, value, snapped) ==
    LET direction == Sign(value - m.videoRate)
        m1 == NativeRateKey(m, IF direction = -1 THEN 188 ELSE 190)
        m2 == SetOSD(m1, value)
        m3 == NativeSetPlaybackRate(m2, value, snapped)
    IN  [Call(m3, "video.playbackRate", value) EXCEPT !.videoRate = value]

\* ModPlaybackRate.moddedSetPlaybackRate
moddedSetPlaybackRate(m, value, snapped) ==
    IF m.adState # -1 THEN m
    ELSE LET direction == Sign(value - m.videoRate)
             m1 == NativeRateKey(m, IF direction = -1 THEN 188 ELSE 190)
             m2 == SetOSD(m1, value)
             m3 == NativeSetPlaybackRate(m2, value, snapped)
         IN  [Call(m3, "video.playbackRate", value) EXCEPT !.videoRate = value]

\* The values DefaultPlaybackRate is constructed with: the value of the
\* script and a rate beyond the native range.
DefaultRateInputs == {200, 300}

\* The rates a video is played at.
VideoRates == {100, 200, 300}

\* The tweaks with and without ModPlaybackRate.
DefaultTweakLists ==
    {<<"ModPlaybackRate", "DefaultPlaybackRate">>,
     <<"DefaultPlaybackRate", "CustomPreferredQuality">>}

\* What DefaultPlaybackRate holds and has done while a handler runs.
DefaultRun(default, rate, pending, bound) ==
    [default |-> default, rate |-> rate, pending |-> pending,
     bound |-> bound, inits |-> {}]

\* The player of widget e as the setter finds it: the widget itself is at the
\* rate of its range that is nearest to the rate of the video.
DefaultMedia(st, e, ad) ==
    MediaRun(st.rate[e], Clamp(25, 200, st.rate[e]), 0, 100, ad, TRUE)

\* DefaultPlaybackRate.onPlayerInit: the player is set to the default rate
\* through its setter (the one of ModPlaybackRate when that tweak has
\* replaced it), then its video gets the "ratechange" listener. A change of
\* the rate of the video queues a "ratechange" event, fired later.
DefaultPlaybackRate_onPlayerInit(st, e, ad, isModded, keep) ==
    LET m == DefaultMedia(st, e, ad)
        value == st.default
        nudged == stepPlaybackRate(m, Sign(value - m.videoRate))
        snapped == IF keep THEN nudged.widgetRate ELSE Clamp(25, 200, value)
        after == IF isModded THEN moddedSetPlaybackRate(m, value, snapped)
                 ELSE Player_setPlaybackRate(m, value, snapped)
        changed == /\ after.calls # <<>>
                   /\ \/ nudged.videoRate # m.videoRate
                      \/ after.videoRate # nudged.videoRate
    IN  [st EXCEPT !.rate[e] = after.videoRate,
                   !.pending = IF changed THEN @ \cup {e} ELSE @,
                   !.bound = @ \cup {e},
                   !.inits = @ \cup {[element |-> e, default |-> value,
                                      ad |-> ad, before |-> m.videoRate,
                                      after |-> after.videoRate]}]

\* The "ratechange" listener of DefaultPlaybackRate on the video of widget e:
\* this.playbackRate = player.playbackRate.
DefaultPlaybackRate_ratechange(default, rate, bound, e) ==
    IF e \in bound THEN rate[e] ELSE default

\* The index walk of nextRate, over the 0-based indices from i on: twice the
\* "closest index" (i - 0.5 in front of ladder[i], i on it, the last index
\* when the rate is above the ladder).
RECURSIVE ClosestIdx2(_, _, _)
ClosestIdx2(ladder, oldRate, i) ==
    IF i >= Len(ladder) THEN 2 * (Len(ladder) - 1)
    ELSE IF oldRate < ladder[i + 1] THEN 2 * i - 1
    ELSE IF oldRate = ladder[i + 1] THEN 2 * i
    ELSE ClosestIdx2(ladder, oldRate, i + 1)

\* The step that does not clamp the index at the top of the ladder.
nextRate_Unclamped(ladder, oldRate, direction) ==
    LET idx == TruncHalf(ClosestIdx2(ladder, oldRate, 0) + 2 * direction)
    IN  IF idx < 0 THEN ladder[1]
        ELSE IF idx > Len(ladder) - 1 THEN 2 * ladder[Len(ladder)]
        ELSE ladder[idx + 1]

\* ModPlaybackRate.nextRate
nextRate(ladder, oldRate, direction) ==
    LET idx == TruncHalf(ClosestIdx2(ladder, oldRate, 0) + 2 * direction)
    IN  ladder[Clamp(0, Len(ladder) - 1, idx) + 1]

\* The step that never waits at the ends of the native range.
moddedStepPlaybackRate_NoThrottle(m, ladder, direction, snapped) ==
    LET newRate == nextRate(ladder, m.videoRate, direction)
        m1 == moddedSetPlaybackRate(m, newRate, snapped)
    IN  IF newRate = 25 \/ newRate = 200
        THEN [m1 EXCEPT !.timerRecent = TRUE]
        ELSE m1

\* ModPlaybackRate.moddedStepPlaybackRate
moddedStepPlaybackRate(m, ladder, direction, snapped) ==
    LET oldRate == m.videoRate
        newRate == nextRate(ladder, oldRate, direction)
        isOutsideNativeRange == newRate < 25 \/ newRate > 200
    IN  IF isOutsideNativeRange /\ m.timerRecent THEN m
        ELSE LET m1 == moddedSetPlaybackRate(m, newRate, snapped)
             IN  IF newRate = 25 \/ newRate = 200
                 THEN [m1 EXCEPT !.timerRecent = TRUE]
                 ELSE m1

--------------------------------------------------------------------------
\* The effective time display (EffectiveTimeDisplay). Times are whole seconds
\* and a scaled time is the fraction num / den, so that the floors of the
\* code are computed exactly; rates are in hundredths as above.

\* Positions of the video, lengths of videos and rates the display is
\* computed for; rate 0 stands for a rate that is not set.
Currents == {0, 9, 62, 125, 599, 3600, 7384, 90061}
Durations == {125, 7384, 90061}
TimeRates == {0, 25, 100, 150, 200, 1000}

\* "0" + n for n < 10, n otherwise
Pad2(n) == IF n < 10 THEN "0" \o ToString(n) ELSE ToString(n)

\* The text of a rate, as the template literal `${rate}` gives it.
RateString(rate) ==
    LET whole == rate \div 100
        frac == rate % 100
    IN  IF frac = 0 THEN ToString(whole)
        ELSE IF frac % 10 = 0
             THEN ToString(whole) \o "." \o ToString(frac \div 10)
             ELSE ToString(whole) \o "." \o Pad2(frac)

\* The format that pads the minutes whether or not hours are shown.
secsToDisplayFormat_PadMinutes(num, den) ==
    LET d == num \div (86400 * den)
        secs1 == num - d * 86400 * den
        h == secs1 \div (3600 * den)
        secs2 == secs1 - h * 3600 * den
        m == secs2 \div (60 * den)
        secs3 == secs2 - m * 60 * den
        s == secs3 \div den
        dStr == IF d = 0 THEN "" ELSE ToString(d) \o ":"
        hStr == IF d = 0 /\ h = 0 THEN ""
                ELSE IF d # 0 THEN Pad2(h) \o ":" ELSE ToString(h) \o ":"
    IN  dStr \o hStr \o Pad2(m) \o ":" \o Pad2(s)

\* EffectiveTimeDisplay.secsToDisplayFormat, for secs = num / den. The code
\* overwrites d and h with "" and goes on comparing them with 0: "" == 0
\* holds, so a blanked d or h counts as zero in the later conditions.
secsToDisplayFormat(num, den) ==
    LET d == num \div (86400 * den)
        secs1 == num - d * 86400 * den
        h == secs1 \div (3600 * den)
        secs2 == secs1 - h * 3600 * den
        m == secs2 \div (60 * den)
        secs3 == secs2 - m * 60 * den
        s == secs3 \div den
        dBlank == d = 0
        hBlank == dBlank /\ h = 0
        dStr == IF dBlank THEN "" ELSE ToString(d)
        dhSeparator == IF dBlank THEN "" ELSE ":"
        hStr == IF hBlank THEN ""
                ELSE IF h < 10 /\ ~dBlank THEN "0" \o ToString(h)
                ELSE ToString(h)
        hmSeparator == IF hBlank THEN "" ELSE ":"
        mStr == IF m < 10 /\ (~dBlank \/ h # 0)
                THEN "0" \o ToString(m) ELSE ToString(m)
        sStr == IF s < 10 THEN "0" \o ToString(s) ELSE ToString(s)
    IN  dStr \o dhSeparator \o hStr \o hmSeparator \o mStr \o ":" \o sStr

\* EffectiveTimeDisplay.effTimeStrings
effTimeStrings(current, dur, rate) ==
    IF rate = 0 \/ rate = 100
    THEN [current |-> secsToDisplayFormat(current, 1),
          duration |-> secsToDisplayFormat(dur, 1),
          playbackRate |-> ""]
    ELSE [current |-> secsToDisplayFormat(current * 100, rate),
          duration |-> secsToDisplayFormat(dur * 100, rate),
          playbackRate |-> " (" \o RateString(rate) \o "x)"]

--------------------------------------------------------------------------
\* The playback quality of one player.

\* The quality labels of QUALITY_LEVELS (main.js:51-67), and a label that is
\* none of them.
QualityLabels ==
    {"auto", "tiny", "small", "medium", "large", "hd720", "hd1080", "hd1440",
     "hd2160", "highres"}
QualityInputs == QualityLabels \cup {"bogus"}

\* The levels a video can have, the highest first.
QualityLadder ==
    <<"highres", "hd2160", "hd1440", "hd1080", "hd720", "large", "medium",
      "small", "tiny", "auto">>

\* What getAvailableQualityLevels() returns: nothing while no video is
\* loaded, else the levels of the video from its highest one down.
QualityLists ==
    {<<>>} \cup {SubSeq(QualityLadder, k, Len(QualityLadder)) :
                    k \in {1, 3, 4, 5, 7}}

\* Array.prototype.includes
Includes(array, x) == \E i \in 1..Len(array) : array[i] = x

\* array[0]
First(array) == IF Len(array) = 0 THEN Undefined ELSE array[1]

\* The setter that passes the label on as it is given.
Player_setPlaybackQuality_NoFallback(levels, quality) ==
    [range |-> <<quality, quality>>, raised |-> FALSE]

\* TweakedYouTubePlayer: set playbackQuality(quality). No statement of it
\* throws for an array of levels: includes and [0] are defined on every
\* array, the empty one included.
Player_setPlaybackQuality(levels, quality) ==
    LET availableQualities == levels
        q == IF ~Includes(availableQualities, quality)
             THEN First(availableQualities)
             ELSE quality
    IN  [range |-> <<q, q>>, raised |-> FALSE]

--------------------------------------------------------------------------
\* Tweak.retryOnFail. A run works on the timeout pending, the number of
\* invocations of the callback and whether one of them reported success;
\* success is what the callback returns in this invocation.

\* The retry that stops one invocation too late.
retryOnFail_OneMore(r, success, interval, maxTries) ==
    LET r1 == [r EXCEPT !.calls = @ + 1, !.success = @ \/ success]
    IN  IF success \/ maxTries <= 0
        THEN [r1 EXCEPT !.timer = [delay |-> 0, maxTries |-> 0]]
        ELSE [r1 EXCEPT !.timer = [delay |-> interval,
                                   maxTries |-> maxTries - 1]]

\* Tweak.retryOnFail(callback, interval, maxTries)
retryOnFail(r, success, interval, maxTries) ==
    LET r1 == [r EXCEPT !.calls = @ + 1, !.success = @ \/ success]
    IN  IF success \/ maxTries <= 1
        THEN [r1 EXCEPT !.timer = [delay |-> 0, maxTries |-> 0]]
        ELSE [r1 EXCEPT !.timer = [delay |-> interval,
                                   maxTries |-> maxTries - 1]]

--------------------------------------------------------------------------
\* SaveProgressOnURL. A run works on the number of times the listener and the
\* interval were started (bound), this.progressSaved, and the number of
\* rewrites of the URL since the last timeupdate of the main video (writes).

\* The defaults of retryOnFail, with which onAppInit calls it.
SaveInterval == 500
SaveTries == 10

SaveRunOf(bound, saved, writes) ==
    [bound |-> bound, progressSaved |-> saved, writes |-> writes,
     result |-> FALSE]

\* The callback that starts the listener and the interval without looking
\* for the main player.
bindListeners_NoCheck(sv, ps, video) ==
    [sv EXCEPT !.bound = @ + 1, !.result = TRUE]

\* SaveProgressOnURL.bindListeners, with this.app.players and whether the
\* main widget has a video element.
bindListeners(sv, ps, video) ==
    IF mainPlayer(ps) = 0 \/ ~video
    THEN [sv EXCEPT !.result = FALSE]
    ELSE [sv EXCEPT !.bound = @ + 1, !.result = TRUE]

\* The listener of "timeupdate": this.progressSaved = false
SaveTimeupdate(sv) == [sv EXCEPT !.progressSaved = "false", !.writes = 0]

\* The save that does not look at this.progressSaved.
saveProgressOnUrl_NoFlag(sv, watch) ==
    IF ~watch THEN sv
    ELSE [sv EXCEPT !.writes = @ + 1, !.progressSaved = "true"]

\* SaveProgressOnURL.saveProgressOnUrl; watch tells whether the location is
\* a watch page.
saveProgressOnUrl(sv, watch) ==
    IF sv.progressSaved = "true" THEN sv
    ELSE IF ~watch THEN sv
    ELSE [sv EXCEPT !.writes = @ + 1, !.progressSaved = "true"]

--------------------------------------------------------------------------
\* The classes of tweaks. A hook of an object is found on the prototype chain:
\* on the prototype of its class when the class defines it, on Tweak.prototype
\* otherwise.

Hooks ==
    {"onAppEagerInit", "onAppInit", "onAppRefresh",
     "onPlayerEagerInit", "onPlayerInit", "onPlayerRefresh"}

TweakClass == "Tweak"
ConcreteClasses == Range(ShippedTweaks)
Classes == ConcreteClasses \cup {TweakClass}

\* The hooks each shipped class defines itself.
OwnHooks(class) ==
    CASE class = "SaveProgressOnURL" -> {"onAppInit"}
      [] class = "MouseWheelVolumeControl" -> {"onPlayerInit"}
      [] class = "MouseWheelPlaybackRateControl" ->
             {"onPlayerInit", "onPlayerRefresh"}
      [] class = "ModPlaybackRate" -> {"onPlayerEagerInit"}
      [] class = "DefaultPlaybackRate" -> {"onPlayerInit"}
      [] class = "CustomPreferredQuality" -> {"onPlayerInit"}
      [] class = "CustomKeyboardShortcuts" -> {"onAppInit"}
      [] class = "EffectiveTimeDisplay" -> {"onPlayerInit", "onPlayerRefresh"}
      [] OTHER -> Hooks

\* The class whose definition of the hook an object of the class runs, or
\* Undefined when the chain has none.
HookImpl(class, hook) ==
    IF hook \in OwnHooks(class) THEN class
    ELSE IF hook \in OwnHooks(TweakClass) THEN TweakClass
    ELSE Undefined

\* The constructor of Tweak without its guard.
Tweak_constructor_NoGuard(newTarget) == [raised |-> FALSE]

\* Tweak.constructor, reached through super() from every subclass
Tweak_constructor(newTarget) == [raised |-> newTarget = TweakClass]

\* new class(...): the object, unless the constructor threw.
New(class) ==
    IF Tweak_constructor(class).raised THEN {}
    ELSE {[class |-> class, impl |-> [h \in Hooks |-> HookImpl(class, h)]]}

--------------------------------------------------------------------------
\* Member reads on the handle of a player: the proxy the wrapper constructor
\* returns, whose get trap is getHandler.

\* Fields the constructor assigns, and members of the class (a sample of
\* main.js:199-406).
OwnProps == {"element", "tweaks", "_isUIEnabled"}
OwnMethods == {"video", "playbackRate", "stepVolume", "toggleUI",
               "addEventListener", "wakeUpControls"}

\* Names of the API the widget script puts on the element; which of them a
\* widget has depends on the widget (an embedded player has no
\* wakeUpControls).
ApiProps == {"getAdState", "getVolume", "setPlaybackRate", "wakeUpControls"}

\* DOM methods, DOM attributes (accessors of the DOM prototypes), a method of
\* Object.prototype, and a name nothing defines.
DomMethods == {"focus", "contains", "dispatchEvent"}
DomAccessors == {"id", "isConnected"}
ObjectMethods == {"toString"}
Props ==
    OwnProps \cup OwnMethods \cup ApiProps \cup DomMethods
        \cup DomAccessors \cup ObjectMethods \cup {"nosuch"}

\* What the element has under a name: a function (own or inherited), an
\* accessor, or nothing.
NativeKind(api, prop) ==
    IF prop \in ApiProps THEN api[prop]
    ELSE IF prop \in DomMethods \cup ObjectMethods \cup {"addEventListener"}
         THEN "function"
    ELSE IF prop \in DomAccessors THEN "accessor"
    ELSE "absent"

\* The fallback that calls bind only on a function and returns any other
\* member of the widget as it is.
getHandler_BindFunctionsOnly(api, prop) ==
    LET isOwnProp == prop \in OwnProps
        isOwnMethod == prop \in OwnMethods
    IN  IF isOwnProp \/ isOwnMethod
        THEN [from |-> "wrapper", raised |-> FALSE, bound |-> FALSE]
        ELSE [from |-> "native", raised |-> FALSE,
              bound |-> NativeKind(api, prop) = "function"]

\* TweakedYouTubePlayer.getHandler(target, prop, receiver). The fallback
\* reads the member of the element with the proxy as receiver and calls
\* bind on what it gets: a function is bound to the element; a getter of the
\* DOM runs with the proxy as this and throws TypeError (illegal
\* invocation); undefined has no bind, which throws TypeError as well.
getHandler(api, prop) ==
    LET isOwnProp == prop \in OwnProps
        isOwnMethod == prop \in OwnMethods
    IN  IF isOwnProp \/ isOwnMethod
        THEN [from |-> "wrapper", raised |-> FALSE, bound |-> FALSE]
        ELSE IF NativeKind(api, prop) = "function"
             THEN [from |-> "native", raised |-> FALSE, bound |-> TRUE]
             ELSE [from |-> "native", raised |-> TRUE, bound |-> FALSE]

--------------------------------------------------------------------------
\* The time displays of one widget and the two tweaks that patch them. A run
\* works on the native time displays (tds), the set of
\* MouseWheelPlaybackRateControl (set), the list of EffectiveTimeDisplay
\* (tweaked: per entry the native display, the wrapper, which of the two
\* displays is active and whether the effective one is in the document) and
\* the wrappers whose video has the listeners of the latter (bound).

TDRun(tds, set, tweaked, bound) ==
    [tds |-> tds, set |-> set, tweaked |-> tweaked, bound |-> bound]

\* TweakedYouTubePlayer.timeDisplays: the native time displays in the
\* document. An effective time display has the classes "eff-time-display
\* ytp-time-display", not "notranslate", and is never among them.
timeDisplays(st) ==
    {i \in DOMAIN st.tds : st.tds[i].exists /\ st.tds[i].inDom}

\* The handler that adds its listener without looking at the set.
MWPRC_onPlayerInit_NoSet(st, player) ==
    LET new == timeDisplays(st)
    IN  [st EXCEPT !.tds = [i \in DOMAIN st.tds |->
                               IF i \in new
                               THEN [st.tds[i] EXCEPT !.wheel = @ + 1]
                               ELSE st.tds[i]],
                   !.set = st.set \cup new]

\* MouseWheelPlaybackRateControl.onPlayerInit, which is onPlayerRefresh too
MWPRC_onPlayerInit(st, player) ==
    LET new == timeDisplays(st) \ st.set
    IN  [st EXCEPT !.tds = [i \in DOMAIN st.tds |->
                               IF i \in new
                               THEN [st.tds[i] EXCEPT !.wheel = @ + 1]
                               ELSE st.tds[i]],
                   !.set = st.set \cup new]

\* EffectiveTimeDisplay.getNonTweakedTDs
getNonTweakedTDs(st) ==
    {i \in timeDisplays(st) :
        \A k \in 1..Len(st.tweaked) : st.tweaked[k].native # i}

\* The loop of tweakTDs over the non-tweaked displays from i on: an effective
\* display is created and the pair is pushed.
RECURSIVE PushNew(_, _, _, _)
PushNew(tweaked, i, new, player) ==
    IF i > MaxTDs THEN tweaked
    ELSE PushNew(IF i \in new
                 THEN Append(tweaked, [native |-> i, player |-> player,
                                       active |-> "native", effInDom |-> FALSE])
                 ELSE tweaked,
                 i + 1, new, player)

\* enableEffTDs for entry k: replaceTDElements(active, eff), which moves
\* nothing when active is the effective display already or is not in the
\* document.
enableEffTD(st, k) ==
    LET e == st.tweaked[k]
        swap == e.active = "native" /\ st.tds[e.native].inDom
    IN  [st EXCEPT !.tds[e.native].inDom = IF swap THEN FALSE ELSE @,
                   !.tweaked[k] = [e EXCEPT !.active = "eff",
                                            !.effInDom = swap \/ @]]

\* disableEffTDs for entry k: replaceTDElements(active, native)
disableEffTD(st, k) ==
    LET e == st.tweaked[k]
        swap == e.active = "eff" /\ e.effInDom
    IN  [st EXCEPT !.tds[e.native].inDom = IF swap THEN TRUE ELSE @,
                   !.tweaked[k] = [e EXCEPT !.active = "native",
                                            !.effInDom = IF swap THEN FALSE
                                                         ELSE @]]

\* EffectiveTimeDisplay.updateTDs over the entries of the player from k on
RECURSIVE updateTDsFrom(_, _, _, _)
updateTDsFrom(st, k, player, ad) ==
    IF k > Len(st.tweaked) THEN st
    ELSE IF st.tweaked[k].player # player
         THEN updateTDsFrom(st, k + 1, player, ad)
         ELSE updateTDsFrom(IF ad # -1 THEN disableEffTD(st, k)
                            ELSE enableEffTD(st, k),
                            k + 1, player, ad)

updateTDs(st, player, ad) == updateTDsFrom(st, 1, player, ad)

\* The first half of tweakTDs: its loop.
pushNonTweakedTDs(st, player) ==
    [st EXCEPT !.tweaked = PushNew(@, 1, getNonTweakedTDs(st), player)]

\* EffectiveTimeDisplay.tweakTDs
tweakTDs(st, player, ad) ==
    updateTDs(pushNonTweakedTDs(st, player), player, ad)

\* EffectiveTimeDisplay.onPlayerInit: tweakTDs, then bindListeners
ETD_onPlayerInit(st, player, ad) ==
    [tweakTDs(st, player, ad) EXCEPT !.bound = @ \cup {player}]

\* EffectiveTimeDisplay.onPlayerRefresh
ETD_onPlayerRefresh(st, player, ad) == tweakTDs(st, player, ad)

\* The tweaks the time displays are studied with: the two that patch them,
\* and between them, as in the array of the script, one that does not.
MWPRC == "MouseWheelPlaybackRateControl"
ETD == "EffectiveTimeDisplay"
TDTweaks == <<MWPRC, "DefaultPlaybackRate", ETD>>

\* What a hook invocation that returns does to the time displays.
TDEffect(st, ev, ad) ==
    CASE ev.tweak = MWPRC /\ ev.hook \in {"onPlayerInit", "onPlayerRefresh"}
             -> MWPRC_onPlayerInit(st, ev.target)
      [] ev.tweak = ETD /\ ev.hook = "onPlayerInit"
             -> ETD_onPlayerInit(st, ev.target, ad)
      [] ev.tweak = ETD /\ ev.hook = "onPlayerRefresh"
             -> ETD_onPlayerRefresh(st, ev.target, ad)
      [] OTHER -> st

\* What a hook invocation that throws can have done to them: nothing, or for
\* tweakTDs, whose updateTDs calls into the widget (getAdState), its loop.
TDThrown(st, ev) ==
    IF ev.tweak = ETD /\ ev.hook \in {"onPlayerInit", "onPlayerRefresh"}
    THEN {st, pushNonTweakedTDs(st, ev.target)}
    ELSE {st}

\* The hook invocations i..n of a handler, on the time displays.
RECURSIVE TDAfter(_, _, _, _, _)
TDAfter(st, tr, i, n, ad) ==
    IF i > n THEN st
    ELSE TDAfter(TDEffect(st, tr[i], ad), tr, i + 1, n, ad)

\* The "timeupdate" listeners of the wrappers from p on, in the order they
\* were bound.
RECURSIVE timeupdateFrom(_, _, _, _)
timeupdateFrom(st, p, last, ad) ==
    IF p > last THEN st
    ELSE timeupdateFrom(IF p \in st.bound THEN updateTDs(st, p, ad) ELSE st,
                        p + 1, last, ad)

--------------------------------------------------------------------------
\* Bookkeeping of what a finished run did.

CountHook(tr, h, t, e) ==
    Cardinality({i \in 1..Len(tr) :
        tr[i].hook = h /\ tr[i].tweak = t /\ tr[i].element = e})

Recorded(st) ==
    /\ trace' = st.trace
    /\ threw' = st.threw
    /\ throwsLeft' = IF st.threw THEN throwsLeft - 1 ELSE throwsLeft
    /\ constructed' = st.constructed

\* Anything but a lifecycle handler ran: the record of the last one is dropped.
Forgotten ==
    /\ pass' = "none"
    /\ trace' = <<>>
    /\ threw' = FALSE

\* The record of a step without UI operation.
NoUI ==
    [op |-> "none", element |-> 0, wasEnabled |-> TRUE, calls |-> <<>>,
     expected |-> <<>>, child |-> 0, value |-> ""]

\* Anything but a UI operation ran: the record of the last one is dropped.
UIForgotten ==
    /\ uiLast' = NoUI
    /\ UNCHANGED preHide

\* The record of a step without rate or volume operation.
NoMedia == [op |-> "none", arg |-> 0, calls |-> <<>>]

\* The player as the script finds it: normal speed, nothing modded yet.
MediaIdle ==
    /\ videoRate = 100
    /\ widgetRate = 100
    /\ osd = 0
    /\ volume = 100
    /\ adState = -1
    /\ modded = FALSE
    /\ playbackRates = DefaultLadder
    /\ timerRecent = TRUE
    /\ mediaLast = NoMedia
    /\ streak = 0

\* No effective time display has been filled in.
NoText == [current |-> "", duration |-> "", playbackRate |-> ""]

\* The video as the script finds it.
TimeIdle ==
    /\ currentTime = 0
    /\ duration = 0
    /\ effText = NoText

\* The record of a step without quality operation.
NoQuality == [op |-> "none", arg |-> "", raised |-> FALSE]

\* No video is loaded and no quality has been asked for.
QualityIdle ==
    /\ qualityLevels = <<>>
    /\ qualityRange = <<>>
    /\ qualityLast = NoQuality

\* No timeout, no call.
NoTimer == [delay |-> 0, maxTries |-> 0]
NoRetry == [interval |-> 0, maxTries |-> 0]

\* retryOnFail has not been called.
RetryIdle ==
    /\ retryArgs = NoRetry
    /\ retryTimer = NoTimer
    /\ retryCalls = 0
    /\ retrySuccess = FALSE

\* The record of a step that constructs no tweak and calls no hook.
NoNew == [op |-> "none", class |-> "", hook |-> "", raised |-> FALSE,
          effect |-> FALSE]

\* No tweak has been constructed.
ClassIdle ==
    /\ tweakObjects = {}
    /\ newLast = NoNew

\* The record of a step without member read.
NoGet == [op |-> "none", prop |-> "", from |-> "", raised |-> FALSE,
          bound |-> FALSE]

\* The widget has its whole API and no member has been read.
HandleIdle ==
    /\ apiKind = [prop \in ApiProps |-> "function"]
    /\ handleLast = NoGet

\* A native time display the widget has not created, and one it has just
\* put into the document.
NoTD == [exists |-> FALSE, inDom |-> FALSE, wheel |-> 0]
FreshTD == [exists |-> TRUE, inDom |-> TRUE, wheel |-> 0]

\* The widget has its first time display and no tweak has seen it.
TDIdle ==
    /\ timeDisplayEls = [i \in 1..MaxTDs |-> IF i = 1 THEN FreshTD ELSE NoTD]
    /\ tweakedTimeDisplays = {}
    /\ tweakedTDs = <<>>
    /\ tdBound = {}

\* No hideUI has been called.
NoHides == [hides |-> 0, before |-> <<>>, shown |-> FALSE]

HideIdle == hideRun = NoHides

\* SaveProgressOnURL as constructed: progressSaved is not assigned.
SaveIdle ==
    /\ saveBound = 0
    /\ progressSaved = Undefined
    /\ isWatchPage = TRUE
    /\ hasVideo = FALSE
    /\ urlWrites = 0
    /\ saveTick = FALSE

\* The tweaks as the script finds the page.
DefaultIdle ==
    /\ defaultRate = 200
    /\ rateOf = [e \in Elements |-> 100]
    /\ rcPending = {}
    /\ rcBound = {}
    /\ defInits = {}

TweakIdle ==
    /\ DefaultIdle
    /\ SaveIdle
    /\ HideIdle
    /\ TimeIdle
    /\ QualityIdle
    /\ RetryIdle
    /\ ClassIdle
    /\ HandleIdle
    /\ TDIdle

\* The hook invocation of a run that throws: none (0), or while hooks may still
\* throw any one of those the run makes.
ThrowPoints(full) == IF throwsLeft > 0 THEN 0..Len(full.trace) ELSE {0}

\* The ways a handler can end, given its run with hooks that all return.
Outcomes(full) == {Outcome(full, k) : k \in ThrowPoints(full)}

--------------------------------------------------------------------------
Init ==
    /\ appState = "none"
    /\ appTweaks = <<>>
    /\ players = <<>>
    /\ page = <<>>
    /\ listeners = 0
    /\ activeElement = 0
    /\ throwsLeft = MaxThrows
    /\ pass = "none"
    /\ trace = <<>>
    /\ threw = FALSE
    /\ constructed = [e \in Elements |-> 0]
    /\ display = [e \in Elements |-> [c \in UIChildren |-> ""]]
    /\ oldDisplayStyle = [e \in Elements |-> [c \in UIChildren |-> Undefined]]
    /\ uiLast = NoUI
    /\ preHide = [e \in Elements |-> <<>>]
    /\ MediaIdle
    /\ TweakIdle

\* The script runs: new TweakedYouTubeApp(tweaks) (main.js:1166).
PageLoad ==
    /\ appState = "none"
    /\ \E st \in Outcomes(App_constructor(Run(<<>>, constructed), page, tweaks)) :
          /\ Recorded(st)
          /\ players' = st.players
          /\ appTweaks' = tweaks
          /\ appState' = IF st.threw THEN "failed" ELSE "running"
          /\ listeners' = IF st.threw THEN listeners ELSE listeners + 1
    /\ pass' = "load"
    /\ UIForgotten
    /\ UNCHANGED <<mediaVars, tweakVars>>
    /\ UNCHANGED <<page, activeElement, display, oldDisplayStyle>>

\* The page emits "yt-visibility-refresh" after the script has run: every
\* registered handler runs; with none registered the signal is dropped.
RefreshSignal ==
    /\ appState # "none"
    /\ IF listeners > 0
       THEN /\ \E st \in Outcomes(refreshHandler(Run(players, constructed),
                                                  page, appTweaks)) :
                  /\ Recorded(st)
                  /\ players' = st.players
            /\ pass' = "refresh"
       ELSE /\ pass' = "dropped"
            /\ trace' = <<>>
            /\ threw' = FALSE
            /\ UNCHANGED <<players, throwsLeft, constructed>>
    /\ UIForgotten
    /\ UNCHANGED <<mediaVars, tweakVars>>
    /\ UNCHANGED <<appState, appTweaks, page, listeners, activeElement,
                   display, oldDisplayStyle>>

\* The page inserts a native widget into the document.
DomAdd ==
    /\ \E e \in Elements \ Range(page) : \E i \in 1..(Len(page) + 1) :
          page' = InsertAt(page, i, e)
    /\ Forgotten
    /\ UIForgotten
    /\ UNCHANGED <<mediaVars, tweakVars>>
    /\ UNCHANGED <<appState, appTweaks, players, listeners,
                   activeElement, throwsLeft, constructed,
                   display, oldDisplayStyle>>

\* The page removes a native widget from the document; focus inside it is lost.
DomRemove ==
    /\ \E i \in 1..Len(page) :
          /\ page' = RemoveAt(page, i)
          /\ activeElement' = IF activeElement = page[i] THEN 0
                              ELSE activeElement
    /\ Forgotten
    /\ UIForgotten
    /\ UNCHANGED <<mediaVars, tweakVars>>
    /\ UNCHANGED <<appState, appTweaks, players, listeners,
                   throwsLeft, constructed, display, oldDisplayStyle>>

\* The user moves the keyboard focus into a widget of the page, or out of all.
UserFocus ==
    /\ \E x \in {0} \cup Range(page) :
          /\ x # activeElement
          /\ activeElement' = x
    /\ Forgotten
    /\ UIForgotten
    /\ UNCHANGED <<mediaVars, tweakVars>>
    /\ UNCHANGED <<appState, appTweaks, players, page, listeners,
                   throwsLeft, constructed, display, oldDisplayStyle>>

\* TweakedYouTubeApp.focusNextPlayer, called by closeAds or by any tweak.
FocusNextPlayer ==
    /\ appState # "none"
    /\ activeElement' = focusNextPlayer(players, activeElement, page)
    /\ Forgotten
    /\ uiLast' = [NoUI EXCEPT !.op = "focusNextPlayer"]
    /\ UNCHANGED preHide
    /\ UNCHANGED <<mediaVars, tweakVars>>
    /\ UNCHANGED <<appState, appTweaks, players, page, listeners,
                   throwsLeft, constructed, display, oldDisplayStyle>>

Next ==
    \/ PageLoad
    \/ RefreshSignal
    \/ DomAdd
    \/ DomRemove
    \/ UserFocus
    \/ FocusNextPlayer

Spec == Init /\ [][Next]_vars

\* Whether a wrapper that is not tracked observes the element: one whose
\* constructor threw after UIObserver.observe.
HasZombie(e) ==
    constructed[e] > Cardinality({i \in 1..Len(players) : players[i].element = e})

\* The UI run of the tracked wrapper k as a task starts.
UIStart(k) ==
    UIRun(players[k], display[players[k].element],
          oldDisplayStyle[players[k].element], HasZombie(players[k].element))

\* The end of a task that called UI methods of the tracked wrapper k: the
\* style mutations are delivered, and the operation is recorded.
UIDone(op, k, ran) ==
    LET e == players[k].element
        u == DeliverMutations(ran)
        hides == \E i \in 1..Len(u.calls) : u.calls[i] = "hideUI"
        shows == \E i \in 1..Len(u.calls) : u.calls[i] = "showUI"
    IN  /\ players' = [players EXCEPT ![k] = u.player]
        /\ display' = [display EXCEPT ![e] = u.display]
        /\ oldDisplayStyle' = [oldDisplayStyle EXCEPT ![e] = u.old]
        /\ uiLast' = [NoUI EXCEPT !.op = op, !.element = e,
                                  !.wasEnabled = players[k].isUIEnabled,
                                  !.calls = u.calls,
                                  !.expected = IF shows THEN preHide[e] ELSE <<>>]
        /\ preHide' = [preHide EXCEPT ![e] = IF hides THEN display[e] ELSE <<>>]
        /\ Forgotten
        /\ UNCHANGED <<mediaVars, tweakVars>>
        /\ UNCHANGED <<appState, appTweaks, page, listeners, activeElement,
                       throwsLeft, constructed>>

\* The "Toggles player UI" shortcut (Alt+C): toggleUI on the focused player,
\* or on the main player, followed by the delivery of the style mutations.
ToggleUIShortcut ==
    /\ appState # "none"
    /\ ShortcutPlayer(players, activeElement) # 0
    /\ LET k == ShortcutPlayer(players, activeElement)
       IN  \E native \in BOOLEAN :
              UIDone("toggleUI", k, toggleUI(UIStart(k), native))

\* A custom shortcut whose playerAction is hideUI.
HideUIShortcut ==
    /\ appState # "none"
    /\ ShortcutPlayer(players, activeElement) # 0
    /\ LET k == ShortcutPlayer(players, activeElement)
       IN  UIDone("hideUI", k, hideUI(UIStart(k)))

\* A custom shortcut whose playerAction is showUI.
ShowUIShortcut ==
    /\ appState # "none"
    /\ ShortcutPlayer(players, activeElement) # 0
    /\ LET k == ShortcutPlayer(players, activeElement)
       IN  UIDone("showUI", k, showUI(UIStart(k)))

\* The native widget sets style.display of one of its UI elements; the
\* observers of the widget are notified.
NativeSetDisplay ==
    \E e \in Range(page) : \E c \in UIChildren :
    \E v \in Displays \ {display[e][c]} :
       LET new == [display[e] EXCEPT ![c] = v]
           ks == {i \in 1..Len(players) : players[i].element = e}
       IN  /\ IF ks # {}
              THEN LET k == CHOOSE i \in ks : TRUE
                       u == DeliverMutations(SetDisplays(UIStart(k), new))
                   IN  /\ players' = [players EXCEPT ![k] = u.player]
                       /\ display' = [display EXCEPT ![e] = u.display]
                       /\ oldDisplayStyle' =
                              [oldDisplayStyle EXCEPT ![e] = u.old]
              ELSE /\ players' = players
                   /\ display' = [display EXCEPT ![e] = new]
                   /\ oldDisplayStyle' =
                          [oldDisplayStyle EXCEPT ![e][c] =
                              IF HasZombie(e) THEN v ELSE @]
           /\ uiLast' = [NoUI EXCEPT !.op = "native", !.element = e,
                            !.wasEnabled = \A i \in ks : players[i].isUIEnabled,
                            !.child = c, !.value = v]
           /\ preHide' = [preHide EXCEPT ![e] = <<>>]
           /\ Forgotten
           /\ UNCHANGED <<mediaVars, tweakVars>>
           /\ UNCHANGED <<appState, appTweaks, page, listeners, activeElement,
                          throwsLeft, constructed>>

\* The script has run on a page without a player, and the page has then
\* gained its main player (PageLoad, then DomAdd of MoviePlayer).
InitUI ==
    /\ appState = "running"
    /\ appTweaks = tweaks
    /\ players = <<>>
    /\ page = <<MoviePlayer>>
    /\ listeners = 1
    /\ activeElement = 0
    /\ throwsLeft = MaxThrows
    /\ pass = "none"
    /\ trace = <<>>
    /\ threw = FALSE
    /\ constructed = [e \in Elements |-> 0]
    /\ display = [e \in Elements |-> [c \in UIChildren |-> ""]]
    /\ oldDisplayStyle = [e \in Elements |-> [c \in UIChildren |-> Undefined]]
    /\ uiLast = NoUI
    /\ preHide = [e \in Elements |-> <<>>]
    /\ MediaIdle
    /\ TweakIdle

\* The refreshes of that page, the UI operations the shortcuts reach on its
\* main player, and the native widget's own style changes.
NextUI ==
    \/ RefreshSignal
    \/ ToggleUIShortcut
    \/ HideUIShortcut
    \/ ShowUIShortcut
    \/ NativeSetDisplay

SpecUI == InitUI /\ [][NextUI]_vars

\* The main player is tracked, its UI elements have any styles, and nothing
\* has hidden them yet.
InitHide ==
    /\ appState = "running"
    /\ appTweaks = tweaks
    /\ players = <<Wrapper(1, MoviePlayer, tweaks)>>
    /\ page = <<MoviePlayer>>
    /\ listeners = 1
    /\ activeElement = 0
    /\ throwsLeft = 0
    /\ pass = "none"
    /\ trace = <<>>
    /\ threw = FALSE
    /\ constructed = [e \in Elements |-> IF e = MoviePlayer THEN 1 ELSE 0]
    /\ display \in [Elements -> [UIChildren -> Displays]]
    /\ \A e \in Elements \ {MoviePlayer} : \A c \in UIChildren :
          display[e][c] = ""
    /\ oldDisplayStyle = [e \in Elements |-> [c \in UIChildren |-> Undefined]]
    /\ uiLast = NoUI
    /\ preHide = [e \in Elements |-> <<>>]
    /\ MediaIdle
    /\ TweakIdle

\* The end of a task that called hideUI or showUI of the main player: the
\* style mutations are delivered, and the run of hideUI calls is counted.
HideDone(op, ran) ==
    LET k == mainPlayer(players)
        e == players[k].element
        u == DeliverMutations(ran)
    IN  /\ players' = [players EXCEPT ![k] = u.player]
        /\ display' = [display EXCEPT ![e] = u.display]
        /\ oldDisplayStyle' = [oldDisplayStyle EXCEPT ![e] = u.old]
        /\ uiLast' = [NoUI EXCEPT !.op = op, !.element = e,
                                  !.wasEnabled = players[k].isUIEnabled,
                                  !.calls = u.calls]
        /\ UNCHANGED preHide
        /\ Forgotten
        /\ UNCHANGED <<mediaVars, exceptHide>>
        /\ UNCHANGED <<appState, appTweaks, page, listeners, activeElement,
                       throwsLeft, constructed>>

\* player.hideUI(), from a custom shortcut or a tweak.
HideUICall ==
    /\ hideRun.hides < MaxHides
    /\ hideRun' = IF hideRun.hides = 0 \/ hideRun.shown
                  THEN [hides |-> 1, before |-> display[MoviePlayer],
                        shown |-> FALSE]
                  ELSE [hideRun EXCEPT !.hides = @ + 1]
    /\ HideDone("hideUI", hideUI(UIStart(mainPlayer(players))))

\* player.showUI(), from a custom shortcut or a tweak.
ShowUICall ==
    /\ hideRun' = IF hideRun.hides = 0 \/ hideRun.shown THEN NoHides
                  ELSE [hideRun EXCEPT !.shown = TRUE]
    /\ HideDone("showUI", showUI(UIStart(mainPlayer(players))))

\* player.toggleUI(): a hideUI while the flag is set, a showUI otherwise.
ToggleUICall ==
    /\ players[mainPlayer(players)].isUIEnabled => hideRun.hides < MaxHides
    /\ hideRun' = IF ~players[mainPlayer(players)].isUIEnabled
                  THEN IF hideRun.hides = 0 \/ hideRun.shown THEN NoHides
                       ELSE [hideRun EXCEPT !.shown = TRUE]
                  ELSE IF hideRun.hides = 0 \/ hideRun.shown
                       THEN [hides |-> 1, before |-> display[MoviePlayer],
                             shown |-> FALSE]
                       ELSE [hideRun EXCEPT !.hides = @ + 1]
    /\ \E native \in BOOLEAN :
          HideDone("toggleUI",
                   toggleUI(UIStart(mainPlayer(players)), native))

\* The native widget sets style.display of one of the UI elements of the main
\* player, which ends a run of hideUI calls.
HideSetDisplay ==
    /\ \E c \in UIChildren : \E v \in Displays \ {display[MoviePlayer][c]} :
          LET k == mainPlayer(players)
              new == [display[MoviePlayer] EXCEPT ![c] = v]
              u == DeliverMutations(SetDisplays(UIStart(k), new))
          IN  /\ players' = [players EXCEPT ![k] = u.player]
              /\ display' = [display EXCEPT ![MoviePlayer] = u.display]
              /\ oldDisplayStyle' =
                     [oldDisplayStyle EXCEPT ![MoviePlayer] = u.old]
              /\ uiLast' = [NoUI EXCEPT !.op = "native",
                                        !.element = MoviePlayer,
                                        !.child = c, !.value = v]
    /\ hideRun' = NoHides
    /\ UNCHANGED preHide
    /\ Forgotten
    /\ UNCHANGED <<mediaVars, exceptHide>>
    /\ UNCHANGED <<appState, appTweaks, page, listeners, activeElement,
                   throwsLeft, constructed>>

NextHide ==
    \/ HideUICall
    \/ ShowUICall
    \/ ToggleUICall
    \/ HideSetDisplay
    \/ RefreshSignal

SpecHide == InitHide /\ [][NextHide]_vars

\* The lifecycle together with the operations the shortcuts reach.
NextOps ==
    \/ Next
    \/ ToggleUIShortcut

SpecOps == Init /\ [][NextOps]_vars

--------------------------------------------------------------------------
\* The rate and volume operations on the main player of a running app.

\* The app runs and tracks the main player.
MediaApp ==
    /\ appState = "running"
    /\ appTweaks = tweaks
    /\ players = <<Wrapper(1, MoviePlayer, tweaks)>>
    /\ page = <<MoviePlayer>>
    /\ listeners = 1
    /\ activeElement = 0
    /\ throwsLeft = 0
    /\ pass = "none"
    /\ trace = <<>>
    /\ threw = FALSE
    /\ constructed = [e \in Elements |-> IF e = MoviePlayer THEN 1 ELSE 0]
    /\ display = [e \in Elements |-> [c \in UIChildren |-> ""]]
    /\ oldDisplayStyle = [e \in Elements |-> [c \in UIChildren |-> Undefined]]
    /\ uiLast = NoUI
    /\ preHide = [e \in Elements |-> <<>>]

\* The widget plays at one of its own rates, with or without an
\* advertisement, and ModPlaybackRate, when it is among the tweaks, has modded
\* the player with its ladder.
InitRate ==
    /\ MediaApp
    /\ videoRate \in NativeRates
    /\ widgetRate = videoRate
    /\ osd = 0
    /\ volume = 100
    /\ adState \in {-1, 1}
    /\ modded \in BOOLEAN
    /\ playbackRates \in Ladders
    /\ timerRecent = TRUE
    /\ mediaLast = NoMedia
    /\ streak = 0
    /\ TweakIdle

\* The widget plays at some volume.
InitVolume ==
    /\ MediaApp
    /\ videoRate = 100
    /\ widgetRate = 100
    /\ osd = 0
    /\ volume \in VolumeInputs
    /\ adState = -1
    /\ modded = FALSE
    /\ playbackRates = DefaultLadder
    /\ timerRecent = TRUE
    /\ mediaLast = NoMedia
    /\ streak = 0
    /\ TweakIdle

\* The media state as an operation starts.
MediaStart ==
    MediaRun(videoRate, widgetRate, osd, volume, adState, timerRecent)

\* The end of an operation on the player: its effects and its record.
MediaDone(op, arg, m) ==
    /\ videoRate' = m.videoRate
    /\ widgetRate' = m.widgetRate
    /\ osd' = m.osd
    /\ volume' = m.volume
    /\ timerRecent' = m.timerRecent
    /\ mediaLast' = [op |-> op, arg |-> arg, calls |-> m.calls]
    /\ UNCHANGED <<adState, modded, playbackRates>>
    /\ UNCHANGED <<appVars, tweakVars>>

\* What element.setPlaybackRate(value) can make of the value: a rate the
\* widget supports is taken; another one is brought into its range, or the
\* widget keeps the rate the nudge left it with.
Snaps(value, direction) ==
    IF value \in NativeRates THEN {value}
    ELSE {Clamp(25, 200, value), stepPlaybackRate(MediaStart, direction).widgetRate}

\* player.playbackRate = value (a shortcut, DefaultPlaybackRate, any tweak).
SetPlaybackRate ==
    \E value \in RateInputs :
    \E snapped \in Snaps(value, Sign(value - videoRate)) :
        /\ MediaDone("setPlaybackRate", value,
               IF modded THEN moddedSetPlaybackRate(MediaStart, value, snapped)
               ELSE Player_setPlaybackRate(MediaStart, value, snapped))
        /\ streak' = 0

\* player.stepPlaybackRate(direction) (the rate shortcuts, the mouse wheel
\* over the time display).
StepPlaybackRate ==
    \E direction \in {-1, 1} :
    \E snapped \in Snaps(nextRate(playbackRates, videoRate, direction),
                         Sign(nextRate(playbackRates, videoRate, direction)
                              - videoRate)) :
        /\ MediaDone("stepPlaybackRate", direction,
               IF modded
               THEN moddedStepPlaybackRate(MediaStart, playbackRates,
                                           direction, snapped)
               ELSE stepPlaybackRate(MediaStart, direction))
        /\ streak' = IF ~modded \/ direction # 1 \/ adState # -1 THEN 0
                     ELSE IF videoRate = 100 THEN 1
                     ELSE IF streak \in 1..4 THEN streak + 1
                     ELSE streak

\* player.volume = value
SetVolume ==
    \E value \in VolumeInputs : \E step \in VolumeSteps :
        /\ MediaDone("setVolume", value,
                     Player_setVolume(MediaStart, value, step))
        /\ streak' = 0

\* player.stepVolume(direction) (the mouse wheel over the player).
StepVolume ==
    \E direction \in Directions : \E step \in VolumeSteps :
        /\ MediaDone("stepVolume", direction,
                     stepVolume(MediaStart, direction, step))
        /\ streak' = 0

\* A wheel event on the player, its path free of the scrollable elements of
\* the player or holding some of them.
MouseWheel ==
    \E present \in SUBSET ScrollableSelectors :
    \E over \in SUBSET present :
    \E deltaY \in WheelDeltas : \E step \in VolumeSteps :
        /\ MediaDone(IF over = {} THEN "wheel" ELSE "wheelOverScrollable",
                     deltaY,
                     MouseWheelVolumeControl_eventHandler(
                         MediaStart, present, over \cup {"movie_player"},
                         deltaY, step))
        /\ streak' = 0

\* An advertisement starts or ends.
AdChange ==
    /\ adState' = IF adState = -1 THEN 1 ELSE -1
    /\ mediaLast' = NoMedia
    /\ streak' = 0
    /\ UNCHANGED <<videoRate, widgetRate, osd, volume, modded, playbackRates,
                   timerRecent>>
    /\ UNCHANGED <<appVars, tweakVars>>

\* 500 ms have passed since ModPlaybackRate's timer was started.
TimerElapses ==
    /\ timerRecent
    /\ timerRecent' = FALSE
    /\ mediaLast' = NoMedia
    /\ UNCHANGED <<videoRate, widgetRate, osd, volume, adState, modded,
                   playbackRates, streak>>
    /\ UNCHANGED <<appVars, tweakVars>>

NextRate ==
    \/ SetPlaybackRate
    \/ StepPlaybackRate
    \/ AdChange
    \/ TimerElapses

SpecRate == InitRate /\ [][NextRate]_vars

NextVolume ==
    \/ SetVolume
    \/ StepVolume
    \/ MouseWheel

SpecVolume == InitVolume /\ [][NextVolume]_vars

--------------------------------------------------------------------------
\* The effective time display of the main player, kept up to date by the
\* listeners EffectiveTimeDisplay binds to the video.

\* EffectiveTimeDisplay.updateEffTime for the display of the main player
updateEffTime(current, dur, rate) == effTimeStrings(current, dur, rate)

\* A video of some length plays at some position and rate. The display has
\* been created while an advertisement played, which has ended since: its
\* children are still empty (createEffTD gives them no text, and updateTDs
\* returns before updateEffTime during an advertisement).
InitTime ==
    /\ MediaApp
    /\ videoRate \in TimeRates
    /\ widgetRate = 100
    /\ osd = 0
    /\ volume = 100
    /\ adState = -1
    /\ modded = FALSE
    /\ playbackRates = DefaultLadder
    /\ timerRecent = TRUE
    /\ mediaLast = NoMedia
    /\ streak = 0
    /\ duration \in Durations
    /\ currentTime \in {c \in Currents : c <= duration}
    /\ effText = NoText
    /\ QualityIdle
    /\ RetryIdle
    /\ ClassIdle
    /\ HandleIdle
    /\ TDIdle
    /\ HideIdle
    /\ SaveIdle
    /\ DefaultIdle

\* The video fires "timeupdate".
TimeUpdate ==
    \E c \in {c \in Currents : c <= duration} :
        /\ currentTime' = c
        /\ effText' = updateEffTime(c, duration, videoRate)
        /\ UNCHANGED <<duration, appVars, mediaVars, exceptTime>>

\* The video fires "ratechange".
RateChange ==
    \E r \in TimeRates :
        /\ videoRate' = r
        /\ effText' = updateEffTime(currentTime, duration, r)
        /\ UNCHANGED <<currentTime, duration, appVars, exceptTime>>
        /\ UNCHANGED <<widgetRate, osd, volume, adState, modded,
                       playbackRates, timerRecent, mediaLast, streak>>

NextTime ==
    \/ TimeUpdate
    \/ RateChange

SpecTime == InitTime /\ [][NextTime]_vars

--------------------------------------------------------------------------
\* The playback quality of the main player.

InitQuality ==
    /\ MediaApp
    /\ MediaIdle
    /\ TimeIdle
    /\ qualityLevels \in QualityLists
    /\ qualityRange = <<>>
    /\ qualityLast = NoQuality
    /\ RetryIdle
    /\ ClassIdle
    /\ HandleIdle
    /\ TDIdle
    /\ HideIdle
    /\ SaveIdle
    /\ DefaultIdle

\* player.playbackQuality = quality (CustomPreferredQuality.onPlayerInit, or
\* any tweak).
SetPlaybackQuality ==
    \E quality \in QualityInputs :
        LET done == Player_setPlaybackQuality(qualityLevels, quality)
        IN  /\ qualityRange' = done.range
            /\ qualityLast' = [op |-> "set", arg |-> quality,
                               raised |-> done.raised]
            /\ UNCHANGED <<qualityLevels, appVars, mediaVars, exceptQuality>>

\* The widget loads another video, or unloads the one it has.
QualityLevelsChange ==
    \E levels \in QualityLists \ {qualityLevels} :
        /\ qualityLevels' = levels
        /\ qualityLast' = NoQuality
        /\ UNCHANGED <<qualityRange, appVars, mediaVars, exceptQuality>>

NextQuality ==
    \/ SetPlaybackQuality
    \/ QualityLevelsChange

SpecQuality == InitQuality /\ [][NextQuality]_vars

--------------------------------------------------------------------------
\* One use of retryOnFail by a tweak.

\* The largest maxTries a tweak asks for, and the intervals.
MaxTries == 6
Intervals == {250, 500, 1000}

InitRetry ==
    /\ MediaApp
    /\ MediaIdle
    /\ TweakIdle

RetryRun == [timer |-> retryTimer, calls |-> retryCalls,
             success |-> retrySuccess]

RetryDone(r) ==
    /\ retryTimer' = r.timer
    /\ retryCalls' = r.calls
    /\ retrySuccess' = r.success
    /\ UNCHANGED <<appVars, mediaVars, exceptRetry>>

\* A tweak calls this.retryOnFail(callback, interval, maxTries); the callback
\* reports success or failure.
RetryOnFail ==
    \E interval \in Intervals, maxTries \in 1..MaxTries, success \in BOOLEAN :
        /\ retryArgs = NoRetry
        /\ retryArgs' = [interval |-> interval, maxTries |-> maxTries]
        /\ RetryDone(retryOnFail(RetryRun, success, interval, maxTries))

\* The pending timeout fires: retryOnFail runs again with the budget the
\* timeout was set up with.
RetryTimerFires ==
    \E success \in BOOLEAN :
        /\ retryTimer # NoTimer
        /\ UNCHANGED retryArgs
        /\ RetryDone(retryOnFail([RetryRun EXCEPT !.timer = NoTimer], success,
                                 retryTimer.delay, retryTimer.maxTries))

NextRetry ==
    \/ RetryOnFail
    \/ RetryTimerFires

SpecRetry == InitRetry /\ [][NextRetry]_vars

--------------------------------------------------------------------------
\* SaveProgressOnURL over the life of a page: the page load, in which its
\* onAppInit makes the first attempt, the timeouts of retryOnFail, the
\* refreshes that discover players, the interval and the video.

exceptSaveRetry == <<timeVars, qualityVars, classVars, handleVars, tdVars,
                     hideVars,
              defaultVars>>
exceptDefault == <<timeVars, qualityVars, retryVars, classVars, handleVars, tdVars, hideVars, saveVars>>

SaveStart == SaveRunOf(saveBound, progressSaved, urlWrites)

SaveDone(sv) ==
    /\ saveBound' = sv.bound
    /\ progressSaved' = sv.progressSaved
    /\ urlWrites' = sv.writes

\* The position in a pass of the onAppInit of SaveProgressOnURL, 0 if the
\* pass has none.
SaveInitAt(tr) ==
    LET hits == {i \in 1..Len(tr) :
                    tr[i].hook = "onAppInit" /\ tr[i].tweak = "SaveProgressOnURL"}
    IN  IF hits = {} THEN 0 ELSE CHOOSE i \in hits : TRUE

\* this.retryOnFail(() => this.bindListeners()) with the players the app has
\* at that time.
SaveAttempt(ps, interval, maxTries) ==
    LET sv == bindListeners(SaveStart, ps, hasVideo)
    IN  /\ SaveDone(sv)
        /\ retryTimer' = retryOnFail(RetryRun, sv.result, interval,
                                     maxTries).timer
        /\ retryCalls' = retryCalls + 1
        /\ retrySuccess' = (retrySuccess \/ sv.result)

\* The script runs: new TweakedYouTubeApp(tweaks), with the onAppInit of
\* SaveProgressOnURL among the hooks. When that hook is the one that throws,
\* it has made its attempt or not.
SavePageLoad ==
    /\ appState = "none"
    /\ LET full == App_constructor(Run(<<>>, constructed), page, tweaks)
           at == SaveInitAt(full.trace)
       IN  \E st \in Outcomes(full) :
             /\ Recorded(st)
             /\ players' = st.players
             /\ appTweaks' = tweaks
             /\ appState' = IF st.threw THEN "failed" ELSE "running"
             /\ listeners' = IF st.threw THEN listeners ELSE listeners + 1
             /\ \E made \in IF at = 0 \/ Len(st.trace) < at THEN {FALSE}
                             ELSE IF Len(st.trace) = at /\ st.threw
                                  THEN BOOLEAN ELSE {TRUE} :
                   IF made
                   THEN /\ SaveAttempt(full.atCall[at].players,
                                       SaveInterval, SaveTries)
                        /\ retryArgs' = [interval |-> SaveInterval,
                                         maxTries |-> SaveTries]
                   ELSE UNCHANGED <<retryVars, saveBound, progressSaved,
                                    urlWrites>>
    /\ pass' = "load"
    /\ UIForgotten
    /\ UNCHANGED <<isWatchPage, hasVideo, saveTick>>
    /\ UNCHANGED <<mediaVars, exceptSaveRetry>>
    /\ UNCHANGED <<page, activeElement, display, oldDisplayStyle>>

\* What the steps of SaveProgressOnURL after the load leave alone.
SaveQuiet ==
    /\ Forgotten
    /\ UIForgotten
    /\ UNCHANGED <<mediaVars, exceptSaveRetry>>
    /\ UNCHANGED <<appState, appTweaks, players, page, listeners,
                   activeElement, throwsLeft, constructed, display,
                   oldDisplayStyle>>

\* The timeout of retryOnFail fires: the next attempt.
SaveRetryFires ==
    /\ retryTimer # NoTimer
    /\ SaveAttempt(players, retryTimer.delay, retryTimer.maxTries)
    /\ UNCHANGED <<retryArgs, isWatchPage, hasVideo, saveTick>>
    /\ SaveQuiet

\* The interval fires: one run of saveProgressOnUrl.
SaveIntervalFires ==
    /\ saveBound > 0
    /\ SaveDone(saveProgressOnUrl(SaveStart, isWatchPage))
    /\ saveTick' = ~saveTick
    /\ UNCHANGED <<retryVars, isWatchPage, hasVideo>>
    /\ SaveQuiet

\* The video of the main player fires "timeupdate": every listener
\* bindListeners gave it runs.
SaveVideoTimeupdate ==
    /\ saveBound > 0
    /\ SaveDone(SaveTimeupdate(SaveStart))
    /\ UNCHANGED <<retryVars, isWatchPage, hasVideo, saveTick>>
    /\ SaveQuiet

\* The user goes to a page that is no watch page, or back to one.
Navigate ==
    /\ isWatchPage' = ~isWatchPage
    /\ UNCHANGED <<retryVars, saveBound, progressSaved, hasVideo, urlWrites,
                   saveTick>>
    /\ SaveQuiet

\* The page inserts the main widget, the only one SaveProgressOnURL looks
\* for, into the document.
MainWidgetAppears ==
    /\ page = <<>>
    /\ page' = <<MoviePlayer>>
    /\ Forgotten
    /\ UIForgotten
    /\ UNCHANGED <<mediaVars, tweakVars>>
    /\ UNCHANGED <<appState, appTweaks, players, listeners,
                   activeElement, throwsLeft, constructed,
                   display, oldDisplayStyle>>

\* The main widget, in the document, gets its video element.
VideoAppears ==
    /\ MoviePlayer \in Range(page)
    /\ ~hasVideo
    /\ hasVideo' = TRUE
    /\ UNCHANGED <<retryVars, saveBound, progressSaved, isWatchPage,
                   urlWrites, saveTick>>
    /\ SaveQuiet

NextSave ==
    \/ SavePageLoad
    \/ RefreshSignal
    \/ MainWidgetAppears
    \/ SaveRetryFires
    \/ SaveIntervalFires
    \/ SaveVideoTimeupdate
    \/ Navigate
    \/ VideoAppears

SpecSave == Init /\ [][NextSave]_vars

--------------------------------------------------------------------------
\* DefaultPlaybackRate in a running application, with and without
\* ModPlaybackRate: widgets appear and are wrapped, rates change, the
\* "ratechange" events are fired. No hook throws.

\* Only the main widget shows advertisements.
AdStateOf(e) == IF e = MoviePlayer THEN adState ELSE -1

InitDefault ==
    /\ appState = "running"
    /\ appTweaks \in DefaultTweakLists
    /\ players = <<>>
    /\ page = <<MoviePlayer>>
    /\ listeners = 1
    /\ activeElement = 0
    /\ throwsLeft = 0
    /\ pass = "none"
    /\ trace = <<>>
    /\ threw = FALSE
    /\ constructed = [e \in Elements |-> 0]
    /\ display = [e \in Elements |-> [c \in UIChildren |-> ""]]
    /\ oldDisplayStyle = [e \in Elements |-> [c \in UIChildren |-> Undefined]]
    /\ uiLast = NoUI
    /\ preHide = [e \in Elements |-> <<>>]
    /\ MediaIdle
    /\ TimeIdle /\ QualityIdle /\ RetryIdle /\ ClassIdle /\ HandleIdle
    /\ TDIdle /\ HideIdle /\ SaveIdle
    /\ defaultRate \in DefaultRateInputs
    /\ rateOf = [e \in Elements |-> 100]
    /\ rcPending = {}
    /\ rcBound = {}
    /\ defInits = {}

DefaultStart == DefaultRun(defaultRate, rateOf, rcPending, rcBound)

DefaultDone(st) ==
    /\ defaultRate' = st.default
    /\ rateOf' = st.rate
    /\ rcPending' = st.pending
    /\ rcBound' = st.bound
    /\ defInits' = st.inits

\* The hook invocations i..n of a handler, on the rates.
RECURSIVE DefaultAfter(_, _, _, _, _)
DefaultAfter(st, tr, i, n, keep) ==
    IF i > n THEN st
    ELSE DefaultAfter(
             IF tr[i].tweak = "DefaultPlaybackRate"
                /\ tr[i].hook = "onPlayerInit"
             THEN DefaultPlaybackRate_onPlayerInit(
                      st, tr[i].element, AdStateOf(tr[i].element),
                      "ModPlaybackRate" \in Range(appTweaks), keep)
             ELSE st,
             tr, i + 1, n, keep)

\* The page emits "yt-visibility-refresh": refreshHandler runs, with the
\* init hook of DefaultPlaybackRate acting on the new players.
DefaultRefreshSignal ==
    /\ \E out \in Outcomes(refreshHandler(Run(players, constructed),
                                           page, appTweaks)) :
       \E keep \in BOOLEAN :
          LET n == Len(out.trace)
              returned == IF out.threw THEN n - 1 ELSE n
          IN  /\ Recorded(out)
              /\ players' = out.players
              /\ DefaultDone(DefaultAfter(DefaultStart, out.trace, 1,
                                          returned, keep))
    /\ pass' = "refresh"
    /\ UIForgotten
    /\ UNCHANGED <<mediaVars, exceptDefault>>
    /\ UNCHANGED <<appState, appTweaks, page, listeners, activeElement,
                   display, oldDisplayStyle>>

\* What is left alone by the steps that run no handler of the application.
DefaultQuiet ==
    /\ Forgotten
    /\ UIForgotten
    /\ UNCHANGED <<mediaVars, exceptDefault>>
    /\ UNCHANGED <<appState, appTweaks, players, listeners, activeElement,
                   throwsLeft, constructed, display, oldDisplayStyle>>

\* One more widget is put into the document.
DefaultWidgetAppears ==
    /\ Len(page) < MaxWidgets
    /\ page' = Append(page, Len(page) + 1)
    /\ defInits' = {}
    /\ UNCHANGED <<defaultRate, rateOf, rcPending, rcBound>>
    /\ DefaultQuiet

\* The rate of a video is changed (the menu of the widget, a shortcut, the
\* widget itself around an advertisement): a "ratechange" event is queued.
\* At most one event per video is kept waiting.
VideoRateChanges ==
    \E e \in Range(page) \ rcPending : \E r \in VideoRates \ {rateOf[e]} :
        /\ rateOf' = [rateOf EXCEPT ![e] = r]
        /\ rcPending' = rcPending \cup {e}
        /\ defInits' = {}
        /\ UNCHANGED <<defaultRate, rcBound, page>>
        /\ DefaultQuiet

\* A queued "ratechange" event of a video is fired.
RatechangeFires ==
    \E e \in rcPending :
        /\ defaultRate' = DefaultPlaybackRate_ratechange(defaultRate, rateOf,
                                                         rcBound, e)
        /\ rcPending' = rcPending \ {e}
        /\ defInits' = {}
        /\ UNCHANGED <<rateOf, rcBound, page>>
        /\ DefaultQuiet

NextDefault ==
    \/ DefaultRefreshSignal
    \/ DefaultWidgetAppears
    \/ VideoRateChanges
    \/ RatechangeFires
    \/ AdChange

SpecDefault == InitDefault /\ [][NextDefault]_vars

--------------------------------------------------------------------------
\* Construction of tweaks and calls of their hooks.

InitClass ==
    /\ MediaApp
    /\ MediaIdle
    /\ TweakIdle

\* new class(...)
NewTweak ==
    \E class \in Classes :
        /\ tweakObjects' = tweakObjects \cup New(class)
        /\ newLast' = [op |-> "new", class |-> class, hook |-> "",
                       raised |-> Tweak_constructor(class).raised,
                       effect |-> FALSE]
        /\ UNCHANGED <<appVars, mediaVars, exceptClass>>

\* object.hook(target), for a hook the object inherits from Tweak: its body
\* is empty.
CallInheritedHook ==
    \E object \in tweakObjects, hook \in Hooks :
        /\ object.impl[hook] = TweakClass
        /\ newLast' = [op |-> "call", class |-> object.class, hook |-> hook,
                       raised |-> FALSE, effect |-> FALSE]
        /\ UNCHANGED <<tweakObjects, appVars, mediaVars, exceptClass>>

NextClass ==
    \/ NewTweak
    \/ CallInheritedHook

SpecClass == InitClass /\ [][NextClass]_vars

--------------------------------------------------------------------------
\* Member reads on the handle of the main player.

InitHandle ==
    /\ MediaApp
    /\ MediaIdle
    /\ TimeIdle
    /\ QualityIdle
    /\ RetryIdle
    /\ ClassIdle
    /\ apiKind \in [ApiProps -> {"function", "absent"}]
    /\ handleLast = NoGet
    /\ TDIdle
    /\ HideIdle
    /\ SaveIdle
    /\ DefaultIdle

\* player[prop], read by a tweak or by the wrapper itself
GetMember ==
    \E prop \in Props :
        LET got == getHandler(apiKind, prop)
        IN  /\ handleLast' = [op |-> "get", prop |-> prop, from |-> got.from,
                              raised |-> got.raised, bound |-> got.bound]
            /\ UNCHANGED <<apiKind, appVars, mediaVars, exceptHandle>>

NextHandle == GetMember

SpecHandle == InitHandle /\ [][NextHandle]_vars

--------------------------------------------------------------------------
\* The time displays of the main widget over refreshes, advertisements and
\* time updates, with the tweaks TDTweaks.

InitTD ==
    /\ appState = "running"
    /\ appTweaks = TDTweaks
    /\ players = <<>>
    /\ page = <<MoviePlayer>>
    /\ listeners = 1
    /\ activeElement = 0
    /\ throwsLeft = MaxThrows
    /\ pass = "none"
    /\ trace = <<>>
    /\ threw = FALSE
    /\ constructed = [e \in Elements |-> 0]
    /\ display = [e \in Elements |-> [c \in UIChildren |-> ""]]
    /\ oldDisplayStyle = [e \in Elements |-> [c \in UIChildren |-> Undefined]]
    /\ uiLast = NoUI
    /\ preHide = [e \in Elements |-> <<>>]
    /\ MediaIdle
    /\ TweakIdle

TDStart == TDRun(timeDisplayEls, tweakedTimeDisplays, tweakedTDs, tdBound)

TDDone(st) ==
    /\ timeDisplayEls' = st.tds
    /\ tweakedTimeDisplays' = st.set
    /\ tweakedTDs' = st.tweaked
    /\ tdBound' = st.bound

\* The page emits "yt-visibility-refresh": refreshHandler runs, with the
\* hooks of the tweaks acting on the time displays.
TDRefreshSignal ==
    /\ \E out \in Outcomes(refreshHandler(Run(players, constructed),
                                           page, appTweaks)) :
          LET n == Len(out.trace)
              returned == IF out.threw THEN n - 1 ELSE n
              st == TDAfter(TDStart, out.trace, 1, returned, adState)
          IN  /\ Recorded(out)
              /\ players' = out.players
              /\ \E after \in IF out.threw THEN TDThrown(st, out.trace[n])
                                ELSE {st} :
                    TDDone(after)
    /\ pass' = "refresh"
    /\ UIForgotten
    /\ UNCHANGED <<mediaVars, exceptTD>>
    /\ UNCHANGED <<appState, appTweaks, page, listeners, activeElement,
                   display, oldDisplayStyle>>

\* The video fires "timeupdate" (or "ratechange").
TDTimeUpdate ==
    /\ tdBound # {}
    /\ TDDone(timeupdateFrom(TDStart, 1, constructed[MoviePlayer], adState))
    /\ Forgotten
    /\ UIForgotten
    /\ UNCHANGED <<mediaVars, exceptTD>>
    /\ UNCHANGED <<appState, appTweaks, players, page, listeners,
                   activeElement, throwsLeft, constructed, display,
                   oldDisplayStyle>>

\* The widget puts one more time display into the document.
WidgetAddsTD ==
    \E i \in 1..MaxTDs :
        /\ ~timeDisplayEls[i].exists
        /\ timeDisplayEls' = [timeDisplayEls EXCEPT ![i] = FreshTD]
        /\ Forgotten
        /\ UIForgotten
        /\ UNCHANGED <<tweakedTimeDisplays, tweakedTDs, tdBound>>
        /\ UNCHANGED <<mediaVars, exceptTD>>
        /\ UNCHANGED <<appState, appTweaks, players, page, listeners,
                       activeElement, throwsLeft, constructed, display,
                       oldDisplayStyle>>

NextTD ==
    \/ TDRefreshSignal
    \/ TDTimeUpdate
    \/ WidgetAddsTD
    \/ AdChange

SpecTD == InitTD /\ [][NextTD]_vars

--------------------------------------------------------------------------
\* Vocabulary of the properties.

\* The positions of this.players that hold a wrapper of the element.
Tracked(e) == {i \in 1..Len(players) : players[i].element = e}

\* The positions of the recorded pass at which the hook was invoked.
Invocations(h) == {i \in 1..Len(trace) : trace[i].hook = h}

\* The elements a wrapper was constructed for in the recorded pass.
Discovered == {trace[i].element : i \in Invocations("onPlayerEagerInit")}

--------------------------------------------------------------------------
\* C1: no two tracked wrappers have the same element, and there are never
\* more tracked wrappers than distinct native widgets the scan has met (a
\* wrapper is constructed only for an element the scan returned).
C1_NoDuplicateWrapping ==
    /\ \A i, j \in 1..Len(players) :
          players[i].element = players[j].element => i = j
    /\ Len(players) <= Cardinality({e \in Elements : constructed[e] > 0})

\* A refresh has rescanned a page whose two widgets were both tracked already.
C1_Witness ==
    /\ pass = "refresh"
    /\ Len(players) >= 2
    /\ Len(page) >= 2
    /\ Discovered = {}

\* C2 (as claimed): a discovery that follows a discovery, with no change of
\* the page in between, leaves the tracked list as it was and constructs no
\* wrapper (hence runs no eager or init hook).
C2_DiscoveryIdempotent ==
    [][(pass # "none" /\ pass' = "refresh")
          => (players' = players /\ constructed' = constructed)]_vars

\* C3: in a pass, every onPlayerInit invocation on a wrapper comes after the
\* onPlayerEagerInit invocation of every tweak on that same wrapper.
C3_EagerBeforeInit ==
    \A i \in Invocations("onPlayerInit") : \A t \in TweakIds :
        \E j \in 1..(i - 1) :
            trace[j] = Event("onPlayerEagerInit", t,
                             trace[i].target, trace[i].element)

\* The init hook of the first tweak ran on a wrapper, after the eager hook of
\* the last tweak.
C3_Witness ==
    /\ Len(tweaks) >= 2
    /\ \E i \in Invocations("onPlayerInit") : \E j \in 1..(i - 1) :
          /\ trace[i].tweak = tweaks[1]
          /\ trace[j] = Event("onPlayerEagerInit", tweaks[Len(tweaks)],
                              trace[i].target, trace[i].element)

\* The number of invocations of the hook of tweak t on element e in the pass.
Count(h, t, e) == CountHook(trace, h, t, e)

\* The positions of the pass are ordered by the phase their hook belongs to.
InPhaseOrder(Phase(_)) ==
    \A i, j \in 1..Len(trace) : i < j => Phase(trace[i]) <= Phase(trace[j])

\* Phases of a refresh: discovery, app-level refresh, player-level refresh.
RefreshPhase(ev) ==
    IF ev.hook \in PlayerInitHooks THEN 1
    ELSE IF ev.hook = "onAppRefresh" THEN 2
    ELSE IF ev.hook = "onPlayerRefresh" THEN 3 ELSE 0

\* Phases of the page load: app eager hooks, app init hooks, discovery.
LoadPhase(ev) ==
    IF ev.hook = "onAppEagerInit" THEN 1
    ELSE IF ev.hook = "onAppInit" THEN 2
    ELSE IF ev.hook \in PlayerInitHooks THEN 3 ELSE 4

C5_LoadState ==
    /\ pass = "load" =>
          /\ InPhaseOrder(LoadPhase)
          /\ \A i \in 1..Len(trace) : LoadPhase(trace[i]) \in 1..3
          /\ \A h \in AppInitHooks : \A t \in TweakIds : Count(h, t, 0) <= 1
          /\ ~threw =>
                /\ \A h \in AppInitHooks : \A t \in TweakIds :
                      Count(h, t, 0) = 1
                /\ \A e \in Range(page) : Tracked(e) # {}
    /\ pass = "refresh" =>
          \A i \in 1..Len(trace) : trace[i].hook \notin AppInitHooks

\* C5 (step part): the page load runs only while no app exists, and once an
\* app exists that never changes.
C5_LoadStep ==
    /\ pass' = "load" => appState = "none"
    /\ appState # "none" => appState' # "none"

PassComplete ==
    /\ pass = "load" =>
          \A h \in AppInitHooks : \A t \in TweakIds : Count(h, t, 0) = 1
    /\ pass = "refresh" =>
          /\ \A t \in TweakIds : Count("onAppRefresh", t, 0) = 1
          /\ \A k \in 1..Len(players) : \A t \in TweakIds :
                Count("onPlayerRefresh", t, players[k].element) = 1
    /\ \A e \in Range(page) : Tracked(e) # {}
    /\ \A e \in Discovered : \A h \in PlayerInitHooks : \A t \in TweakIds :
          Count(h, t, e) = 1

\* C6 (as claimed): a pass in which a hook threw has still invoked every
\* hook of every tweak on every target of its fan-outs.
C6_FanOutSurvivesThrow == (pass # "none" /\ threw) => PassComplete

\* The position of an element in the document order of the page.
PagePos(e) == CHOOSE i \in 1..Len(page) : page[i] = e

\* The elements of the page that the discovery of the recorded pass finished
\* with: all of them when no hook threw during the discovery, the ones in
\* front of the widget whose hook threw otherwise.
ScanFinished ==
    IF pass \notin {"load", "refresh"} THEN {}
    ELSE IF ~threw THEN Range(page)
    ELSE LET last == trace[Len(trace)]
         IN  IF last.hook \in AppInitHooks THEN {}
             ELSE IF last.hook \in PlayerInitHooks
                  THEN {page[i] : i \in 1..(PagePos(last.element) - 1)}
                  ELSE Range(page)

C8_WrappedOnce ==
    /\ \A e \in Elements : constructed[e] <= 1
    /\ \A e \in Discovered : Tracked(e) # {} =>
          \A h \in PlayerInitHooks : \A t \in TweakIds : Count(h, t, e) = 1

\* C9: the app and every wrapper hold the tweak list of the script, and the
\* n-th invocation of a hook on a target is the hook of the n-th tweak.
C9_InsertionOrder ==
    /\ appState # "none" => appTweaks = tweaks
    /\ \A k \in 1..Len(players) : players[k].tweaks = tweaks
    /\ \A i \in 1..Len(trace) :
          LET earlier == {j \in 1..(i - 1) :
                  trace[j].hook = trace[i].hook
                     /\ trace[j].target = trace[i].target
                     /\ trace[j].element = trace[i].element}
          IN  /\ Cardinality(earlier) < Len(tweaks)
              /\ trace[i].tweak = tweaks[Cardinality(earlier) + 1]

\* A refresh ran the player refresh hook of the second tweak after the first.
C9_Witness ==
    /\ Len(tweaks) >= 2
    /\ \E i \in Invocations("onPlayerRefresh") : trace[i].tweak = tweaks[2]

\* The wrapper objects of a player list, by identity, in order.
Refs(ps) == [k \in 1..Len(ps) |-> <<ps[k].id, ps[k].element>>]

\* C10: no step removes, replaces or moves a tracked wrapper: the list of
\* tracked wrappers before a step is a prefix of the list after it.
C10_WrappersOnlyGrow == [][IsPrefix(Refs(players), Refs(players'))]_vars

\* A refresh has run while a tracked wrapper, its UI hidden by a toggle, had
\* its widget removed from the page.
C10_Witness ==
    /\ pass = "refresh" /\ ~threw
    /\ \E k \in 1..Len(players) :
          players[k].element \notin Range(page) /\ ~players[k].isUIEnabled

\* C11 (as claimed): once the script has run exactly one handler is registered
\* for "yt-visibility-refresh", and no emitted signal goes without a run of
\* refreshHandler.
C11_OneHandlerPerSignal ==
    /\ appState # "none" => listeners = 1
    /\ pass # "dropped"

\* C12 (as claimed): a showUI that follows a hideUI of the same wrapper with
\* no style change of the widget in between leaves every UI element with the
\* style.display it had before the hideUI.
C12_HideShowRoundTrip ==
    uiLast.expected # <<>> => display[uiLast.element] = uiLast.expected

\* The wrapper the last UI operation ran on.
UIPlayer == players[CHOOSE k \in Tracked(uiLast.element) : TRUE]

AllHidden(e) == \A c \in UIChildren : display[e][c] = "none"

\* C13 (state): a wrapper constructed by the pass that has just run has the
\* flag set; after toggleUI the flag is the negation of what it was, toggleUI
\* having called hideUI (and nothing else) when it was set and showUI (and no
\* hideUI) when it was not; after any UI operation the flag is unset exactly
\* when the operation ended with hideUI, and then every UI element is "none".
C13_FlagState ==
    /\ \A i \in Invocations("onPlayerEagerInit") :
          \A k \in Tracked(trace[i].element) : players[k].isUIEnabled
    /\ uiLast.op = "toggleUI" =>
          /\ UIPlayer.isUIEnabled = ~uiLast.wasEnabled
          /\ uiLast.wasEnabled => uiLast.calls = <<"toggleUI", "hideUI">>
          /\ ~uiLast.wasEnabled =>
                /\ Len(uiLast.calls) >= 2 /\ uiLast.calls[2] = "showUI"
                /\ \A i \in 1..Len(uiLast.calls) : uiLast.calls[i] # "hideUI"
    /\ uiLast.op \in {"toggleUI", "hideUI", "showUI"} =>
          /\ ~UIPlayer.isUIEnabled <=>
                uiLast.calls[Len(uiLast.calls)] = "hideUI"
          /\ ~UIPlayer.isUIEnabled => AllHidden(uiLast.element)

\* C13 (step): the flag of a tracked wrapper changes in no step but a UI
\* operation on that wrapper.
C13_FlagStep ==
    \A k \in 1..Len(players) :
        players'[k].isUIEnabled # players[k].isUIEnabled =>
            /\ uiLast'.op \in {"toggleUI", "hideUI", "showUI"}
            /\ uiLast'.element = players[k].element

\* C13: the UI-enabled flag starts set and follows the hide/show operations.
C13_UIEnabledFlag == []C13_FlagState /\ [][C13_FlagStep]_vars

\* toggleUI has shown the UI of a wrapper whose flag was unset.
C13_Witness ==
    /\ uiLast.op = "toggleUI" /\ ~uiLast.wasEnabled
    /\ UIPlayer.isUIEnabled

\* C14 (as claimed): after showUI every UI element displays the style that was
\* recorded for it, a visible default when none was recorded, and no UI
\* element holds a recorded style any more.
C14_ShowRestoresAndClears ==
    (\E i \in 1..Len(uiLast.calls) : uiLast.calls[i] = "showUI") =>
        \A c \in UIChildren :
            /\ oldDisplayStyle[uiLast.element][c] = Undefined
            /\ display[uiLast.element][c] # "none"
                   \/ (uiLast.expected # <<>> /\ uiLast.expected[c] = "none")

\* C15 (as claimed): whenever showUI has run, a trigger of the native
\* widget's controls follows it in the same operation.
C15_ShowWakesControls ==
    \A i \in 1..Len(uiLast.calls) :
        uiLast.calls[i] = "showUI" =>
            \E j \in (i + 1)..Len(uiLast.calls) :
                uiLast.calls[j] = "element.wakeUpControls"

\* C16 (as claimed): a style.display the native widget sets on a UI element of
\* a tracked wrapper is what the element's record holds afterwards, whatever
\* the wrapper did in response, and with the UI hidden the element is "none".
C16_ExternalStyleCaptured ==
    (uiLast.op = "native" /\ Tracked(uiLast.element) # {}) =>
        /\ oldDisplayStyle[uiLast.element][uiLast.child] = uiLast.value
        /\ ~uiLast.wasEnabled => display[uiLast.element][uiLast.child] = "none"

\* C17: a step that sets the playback rate while an advertisement plays - the
\* base setter, the setter of ModPlaybackRate, a rate step routed through the
\* latter - calls nothing on the widget and leaves the rate of the media
\* element, the rate of the widget and the on-screen display as they were.
C17_NoRateChangeDuringAds ==
    [][(/\ adState # -1
        /\ \/ mediaLast'.op = "setPlaybackRate"
           \/ mediaLast'.op = "stepPlaybackRate" /\ modded)
       => /\ mediaLast'.calls = <<>>
          /\ videoRate' = videoRate
          /\ widgetRate' = widgetRate
          /\ osd' = osd]_vars

\* The modded setter was asked for another rate during an advertisement.
C17_Witness ==
    /\ mediaLast.op = "setPlaybackRate" /\ modded
    /\ adState # -1
    /\ mediaLast.arg # videoRate

\* The calls of the last operation that dispatched a keydown.
Nudges(calls) == {i \in 1..Len(calls) : calls[i].call = "keydown"}

\* C18: a step that sets the playback rate to v with no advertisement
\* playing makes exactly one nudge, in the direction of
\* sign(v - rate), then writes v to the on-screen display, then sets the rate
\* of the widget to v, and the rate read back is v.
C18_RateSetBySign ==
    [][(adState = -1 /\ mediaLast'.op = "setPlaybackRate")
       => LET v == mediaLast'.arg
              d == Sign(v - videoRate)
              c == mediaLast'.calls
          IN  /\ Len(c) >= 3
              /\ Nudges(c) = {1}
              /\ \/ d = 1 /\ c[1].arg = 190
                 \/ d = -1 /\ c[1].arg = 188
              /\ c[2] = [call |-> "OSDElement.innerText", arg |-> v]
              /\ c[3] = [call |-> "setPlaybackRate", arg |-> v]
              /\ osd' = v
              /\ videoRate' = v]_vars

\* What the rate setter does keep: such a step makes exactly one nudge, a
\* decrease when v is below the rate and an increase otherwise (also when v is the rate), then
\* writes v to the on-screen display, then sets the rate of the widget to v,
\* and the setter of ModPlaybackRate then sets the rate of the media element
\* to v; the rate read back is v when ModPlaybackRate has modded the player
\* or v is a rate the widget supports.
C18_RateSetOrder ==
    [][(adState = -1 /\ mediaLast'.op = "setPlaybackRate")
       => LET v == mediaLast'.arg
              c == mediaLast'.calls
          IN  /\ Len(c) = IF modded THEN 4 ELSE 3
              /\ c[1] = [call |-> "keydown",
                         arg |-> IF v < videoRate THEN 188 ELSE 190]
              /\ c[2] = [call |-> "OSDElement.innerText", arg |-> v]
              /\ c[3] = [call |-> "setPlaybackRate", arg |-> v]
              /\ modded => c[4] = [call |-> "video.playbackRate", arg |-> v]
              /\ osd' = v
              /\ (modded \/ v \in NativeRates) => videoRate' = v]_vars

\* The rate was set, with no advertisement playing, to a value below the one
\* it had, which the widget does not support.
C18_Witness ==
    /\ mediaLast.op = "setPlaybackRate" /\ adState = -1 /\ modded
    /\ mediaLast.calls # <<>> /\ mediaLast.calls[1].arg = 188
    /\ videoRate \notin NativeRates

\* C19: a step that sets the volume to v makes exactly one
\* nudge, in the direction of sign(v - volume), and then writes v through the
\* direct setter; the volume is v afterwards.
C19_VolumeSetBySign ==
    [][mediaLast'.op = "setVolume"
       => LET v == mediaLast'.arg
              d == Sign(v - volume)
              c == mediaLast'.calls
          IN  /\ Len(c) = 2
              /\ Nudges(c) = {1}
              /\ \/ d = 1 /\ c[1].arg = 38
                 \/ d = -1 /\ c[1].arg = 40
              /\ c[2] = [call |-> "setVolume", arg |-> v]
              /\ volume' = v]_vars

\* What the volume setter does keep: such a step makes exactly one nudge,
\* down when v is below the volume and up otherwise (also when v is the volume), and then writes v
\* through the direct setter; the volume is v afterwards, whatever the size
\* of the native step.
C19_VolumeSetOrder ==
    [][mediaLast'.op = "setVolume"
       => LET v == mediaLast'.arg
              c == mediaLast'.calls
          IN  /\ c = << [call |-> "keydown",
                         arg |-> IF v < volume THEN 40 ELSE 38],
                        [call |-> "setVolume", arg |-> v] >>
              /\ volume' = v]_vars

\* The volume was set to a lower value that is no multiple of the native step.
C19_Witness ==
    /\ mediaLast.op = "setVolume"
    /\ mediaLast.calls[1].arg = 40
    /\ volume = 42

\* A step of the modded player from a rate of the ladder ends on a rate of the
\* ladder, between its lowest and its highest rate.
C20_StepOnLadder ==
    (/\ modded
     /\ mediaLast'.op = "stepPlaybackRate"
     /\ videoRate \in Range(playbackRates))
    => /\ videoRate' \in Range(playbackRates)
       /\ videoRate' >= playbackRates[1]
       /\ videoRate' <= playbackRates[Len(playbackRates)]

\* Five increase steps in a row, the first one from rate 1, on the ladder
\* [0.25, 0.5, 1, 2], end at rate 2.
C20_FiveIncreases ==
    (streak = 5 /\ playbackRates = ConfiguredLadder) => videoRate = 200

\* C20: with ModPlaybackRate installed, stepPlaybackRate(+1/-1) on a player
\* whose rate is on the ladder always gives a rate of the ladder, never one
\* below its lowest or above its highest rate; with the ladder
\* [0.25, 0.5, 1, 2] and rate 1, five increase steps in a row end at 2.
C20_LadderBounded == [][C20_StepOnLadder]_vars /\ []C20_FiveIncreases

\* The fifth increase step in a row has been made on the ladder
\* [0.25, 0.5, 1, 2], starting from rate 1.
C20_Witness ==
    /\ modded
    /\ mediaLast.op = "stepPlaybackRate"
    /\ mediaLast.arg = 1
    /\ streak = 5
    /\ playbackRates = ConfiguredLadder
    /\ videoRate = 200

\* The seconds a display shows for the position c at rate r: c / r, floored.
EffSecs(c, r) == IF r = 0 \/ r = 100 THEN c ELSE (c * 100) \div r

\* C21: the effective time display shows position and length divided by the
\* rate, with floor semantics; position 125, length 7384 and rate 2 give
\* "01:02", "1:01:32" and "(2x)"; at rate 1, or with no rate set, the rate
\* label is empty and the times are not scaled.
C21_EffTimeAsStated ==
    effText # NoText =>
       /\ effText.current = secsToDisplayFormat(EffSecs(currentTime, videoRate), 1)
       /\ effText.duration = secsToDisplayFormat(EffSecs(duration, videoRate), 1)
       /\ videoRate \in {0, 100} => effText.playbackRate = ""
       /\ (currentTime = 125 /\ duration = 7384 /\ videoRate = 200)
          => effText = [current |-> "01:02", duration |-> "1:01:32",
                        playbackRate |-> "(2x)"]

\* C21 (amended): as above, but the minutes are padded to two digits only
\* when hours or days are shown and the rate label starts with a space:
\* position 125, length 7384 and rate 2 give "1:02", "1:01:32" and " (2x)".
C21_EffTime ==
    effText # NoText =>
       /\ effText.current = secsToDisplayFormat(EffSecs(currentTime, videoRate), 1)
       /\ effText.duration = secsToDisplayFormat(EffSecs(duration, videoRate), 1)
       /\ videoRate \in {0, 100} => effText.playbackRate = ""
       /\ videoRate \notin {0, 100}
          => effText.playbackRate = " (" \o RateString(videoRate) \o "x)"
       /\ (currentTime = 125 /\ duration = 7384 /\ videoRate = 200)
          => effText = [current |-> "1:02", duration |-> "1:01:32",
                        playbackRate |-> " (2x)"]
       /\ (currentTime = 125 /\ duration = 7384 /\ videoRate \in {0, 100})
          => effText = [current |-> "2:05", duration |-> "2:03:04",
                        playbackRate |-> ""]

\* The display of position 125 of a video of length 7384 playing at rate 2.
C21_Witness ==
    /\ currentTime = 125 /\ duration = 7384 /\ videoRate = 200
    /\ effText.current = "1:02"

\* C22: setting playbackQuality to a label of the available list applies
\* that label; setting any other label applies the first entry of the list
\* (nothing defined when the list is empty); the setter never raises.
C22_QualityFallback ==
    qualityLast.op = "set" =>
        /\ ~qualityLast.raised
        /\ Includes(qualityLevels, qualityLast.arg)
           => qualityRange = <<qualityLast.arg, qualityLast.arg>>
        /\ ~Includes(qualityLevels, qualityLast.arg)
           => qualityRange = <<First(qualityLevels), First(qualityLevels)>>

\* A label the video does not have was asked for, and the highest level of
\* the video was applied.
C22_Witness ==
    /\ qualityLast.op = "set"
    /\ qualityLast.arg = "highres"
    /\ qualityLevels # <<>> /\ qualityLevels[1] = "hd720"
    /\ qualityRange = <<"hd720", "hd720">>

\* What holds of a use of retryOnFail in every state: at least one and at
\* most maxTries invocations; after a success, or with the budget used up,
\* no timeout is pending; a pending timeout has the configured delay; with
\* maxTries 3 and no success, a finished use has made exactly 3 invocations.
C23_RetryState ==
    retryArgs # NoRetry =>
        /\ retryCalls >= 1
        /\ retryCalls <= retryArgs.maxTries
        /\ retrySuccess => retryTimer = NoTimer
        /\ retryCalls = retryArgs.maxTries => retryTimer = NoTimer
        /\ retryTimer # NoTimer => retryTimer.delay = retryArgs.interval
        /\ (retryArgs.maxTries = 3 /\ ~retrySuccess /\ retryTimer = NoTimer)
           => retryCalls = 3

\* What holds of every step: a timeout that fires, like the call itself,
\* makes exactly one invocation, and without a pending timeout nothing is
\* invoked any more.
C23_RetryStep ==
    /\ retryCalls' \in {retryCalls, retryCalls + 1}
    /\ (retryArgs # NoRetry /\ retryTimer = NoTimer)
       => retryCalls' = retryCalls
    /\ (retryTimer # NoTimer /\ retryTimer' # retryTimer)
       => retryCalls' = retryCalls + 1

\* C23: retryOnFail(check, interval, maxTries) invokes check at least once
\* and at most maxTries times, once per timeout, stops right after the first
\* success, and once the budget is used up schedules nothing more; with
\* maxTries 3 and a check that always fails it makes exactly 3 invocations.
C23_RetryBudget == []C23_RetryState /\ [][C23_RetryStep]_vars

\* A use with maxTries 3 has ended after three failures.
C23_Witness ==
    /\ retryArgs.maxTries = 3
    /\ retryCalls = 3
    /\ ~retrySuccess
    /\ retryTimer = NoTimer

\* What holds in every state: a construction of Tweak itself has raised, one
\* of a subclass has not and has given an object; every object has all six
\* hooks, and those its class does not define are the empty ones of Tweak.
C24_AbstractState ==
    /\ newLast.op = "new"
       => /\ newLast.raised <=> newLast.class = TweakClass
          /\ newLast.class # TweakClass
             => \E object \in tweakObjects : object.class = newLast.class
    /\ \A object \in tweakObjects :
          /\ object.class # TweakClass
          /\ \A hook \in Hooks :
                /\ object.impl[hook] # Undefined
                /\ hook \notin OwnHooks(object.class)
                   => object.impl[hook] = TweakClass
    /\ newLast.op = "call" => ~newLast.raised /\ ~newLast.effect

\* What holds of every step: a failed construction gives no object, and a
\* call of an inherited hook changes nothing.
C24_AbstractStep ==
    /\ newLast'.raised => tweakObjects' = tweakObjects
    /\ newLast'.op = "call"
       => UNCHANGED <<tweakObjects, appVars, mediaVars, exceptClass>>

\* C24: constructing Tweak itself fails at once with an error; constructing
\* a concrete subclass succeeds and gives a tweak whose six hooks are all
\* defined, and are no-ops unless the subclass overrides them.
C24_AbstractTweak == []C24_AbstractState /\ [][C24_AbstractStep]_vars

\* Tweak itself has just been constructed, after a subclass was.
C24_Witness ==
    /\ newLast.op = "new"
    /\ newLast.class = TweakClass
    /\ newLast.raised
    /\ tweakObjects # {}

\* C25: a member read on the handle gives the member of the wrapper when
\* the wrapper defines it, as a field or through its class; any other read is forwarded to
\* the widget and gives a callable bound to the widget where the widget has
\* a function, and what the widget itself gives otherwise: the read does
\* not fail where the same read on the widget does not.
C25_HandleForwards ==
    handleLast.op = "get" =>
        LET prop == handleLast.prop
        IN  /\ ~handleLast.raised
            /\ prop \in OwnProps \cup OwnMethods
               => handleLast.from = "wrapper"
            /\ prop \notin OwnProps \cup OwnMethods
               => /\ handleLast.from = "native"
                  /\ NativeKind(apiKind, prop) = "function"
                     => handleLast.bound

\* What the handle does keep: members the wrapper has as fields or through
\* its class are its own, and functions of the widget come bound to the
\* widget.
C25_HandleFunctions ==
    handleLast.op = "get" =>
        LET prop == handleLast.prop
        IN  /\ prop \in OwnProps \cup OwnMethods
               => handleLast.from = "wrapper" /\ ~handleLast.raised
            /\ (prop \notin OwnProps \cup OwnMethods
                /\ NativeKind(apiKind, prop) = "function")
               => /\ handleLast.from = "native"
                  /\ handleLast.bound
                  /\ ~handleLast.raised

\* The element that has the focus after k calls of focusNextPlayer in a row.
RECURSIVE FocusAfter(_, _)
FocusAfter(k, active) ==
    IF k = 0 THEN active
    ELSE FocusAfter(k - 1, focusNextPlayer(players, active, page))

\* Every tracked widget is in the document: focus() moves the focus.
FocusFollows == \A k \in 1..Len(players) : players[k].element \in Range(page)

\* A call of focusNextPlayer calls focus() on the wrapper after the focused
\* one in tracking order, on the first one after the last or when none is
\* focused, and does nothing when no player is tracked.
C26_FocusStep ==
    uiLast'.op = "focusNextPlayer" =>
        LET n == Len(players)
            i == focusedPlayer(players, activeElement)
            target == players[IF i = n THEN 1 ELSE i + 1].element
        IN  IF n = 0 THEN activeElement' = activeElement
            ELSE activeElement' = focus(target, activeElement, page)

\* With the focus following each call, k calls in a row from any state move
\* the focus k wrappers on in tracking order, cyclically.
C26_FocusCycle ==
    (FocusFollows /\ players # <<>>) =>
        LET n == Len(players)
            i == focusedPlayer(players, activeElement)
        IN  \A k \in 1..(2 * n) :
                FocusAfter(k, activeElement)
                    = players[((i + k - 1) % n) + 1].element

\* C26: focusNextPlayer focuses the tracked wrapper that follows the focused
\* one in tracking order, the first one after the last; with no tracked
\* player focused it focuses the first; with no player tracked it does
\* nothing; k calls in a row, the focus following each, visit the players
\* cyclically.
C26_FocusNext == [][C26_FocusStep]_vars /\ []C26_FocusCycle

\* focusNextPlayer has moved the focus to the second of two tracked players.
C26_Witness ==
    /\ uiLast.op = "focusNextPlayer"
    /\ Len(players) >= 2
    /\ FocusFollows
    /\ activeElement = players[2].element

\* The effective time displays created for a native time display, and those
\* of them that are in the document.
EffTDs(i) == {k \in 1..Len(tweakedTDs) : tweakedTDs[k].native = i}
EffTDsInDom(i) == {k \in EffTDs(i) : tweakedTDs[k].effInDom}

\* What holds in every state: a time display has at most one wheel listener
\* of MouseWheelPlaybackRateControl and at most one effective time display.
C27_PatchedOnce ==
    \A i \in 1..MaxTDs :
        /\ timeDisplayEls[i].wheel <= 1
        /\ Cardinality(EffTDs(i)) <= 1
        /\ Cardinality(EffTDsInDom(i)) <= 1

\* What holds of every step: the set of the one tweak and the list of the
\* other lose nothing.
C27_OnlyGrows ==
    /\ tweakedTimeDisplays \subseteq tweakedTimeDisplays'
    /\ Len(tweakedTDs') >= Len(tweakedTDs)
    /\ \A k \in 1..Len(tweakedTDs) :
          /\ tweakedTDs'[k].native = tweakedTDs[k].native
          /\ tweakedTDs'[k].player = tweakedTDs[k].player

\* C27: over any number of init and refresh invocations of the hooks of
\* MouseWheelPlaybackRateControl and EffectiveTimeDisplay for the same
\* players, each time display gets at most one wheel listener from the one
\* and at most one effective time display from the other, and the
\* bookkeeping of both (tweakedTimeDisplays, tweakedTDs) only grows.
C27_RefreshIdempotent == []C27_PatchedOnce /\ [][C27_OnlyGrows]_vars

\* A refresh has run the refresh hooks on a tracked player whose two time
\* displays are patched, during an advertisement that shows the native ones.
C27_Witness ==
    /\ pass = "refresh" /\ ~threw
    /\ \E i \in 1..Len(trace) : trace[i].hook = "onPlayerRefresh"
    /\ adState # -1
    /\ \A i \in 1..2 :
          /\ timeDisplayEls[i].inDom
          /\ timeDisplayEls[i].wheel = 1
          /\ Cardinality(EffTDs(i)) = 1

\* The last hook invocation of a recorded pass.
LastCall(tr) == tr[Len(tr)]

\* A recorded pass that ended in a throwing eager or init hook of a wrapper.
ConstructionThrew(ps, tr, th) ==
    /\ ps \in {"load", "refresh"}
    /\ th
    /\ LastCall(tr).hook \in PlayerInitHooks

\* What holds of the pass in which the construction of a wrapper throws: the
\* wrapper was constructed and is not tracked, the widgets after its widget
\* in the scan got no wrapper, and no refresh hook ran.
C28_ThrowingScan ==
    ConstructionThrew(pass', trace', threw') =>
        LET last == LastCall(trace')
            e == last.element
            pos == CHOOSE i \in 1..Len(page) : page[i] = e
        IN  /\ constructed'[e] = last.target
            /\ constructed'[e] = constructed[e] + 1
            /\ \A k \in 1..Len(players') : players'[k].element # e
            /\ \A j \in (pos + 1)..Len(page) :
                  /\ constructed'[page[j]] = constructed[page[j]]
                  /\ \A k \in (Len(players) + 1)..Len(players') :
                        players'[k].element # page[j]
                  /\ \A i \in 1..Len(trace') : trace'[i].element # page[j]
            /\ \A i \in 1..Len(trace') :
                  trace'[i].hook \notin {"onAppRefresh", "onPlayerRefresh"}

\* What holds of the refresh that follows such a pass: its scan starts with a
\* fresh wrapper for the same widget, on which the eager hooks run again, and
\* when it returns the init hooks ran too and the fresh wrapper is tracked.
C28_NextScan ==
    (ConstructionThrew(pass, trace, threw) /\ pass' = "refresh") =>
        LET last == LastCall(trace)
            e == last.element
            fresh == last.target + 1
        IN  /\ trace' # <<>>
            /\ trace'[1] = Event("onPlayerEagerInit", tweaks[1], fresh, e)
            /\ constructed'[e] = fresh
            /\ ~threw' =>
                  /\ \E k \in 1..Len(players') :
                        players'[k].id = fresh /\ players'[k].element = e
                  /\ \A h \in PlayerInitHooks : \A t \in TweakIds :
                        Cardinality({i \in 1..Len(trace') :
                            trace'[i] = Event(h, t, fresh, e)}) = 1

\* C28: when an eager or init hook throws while updatePlayers constructs the
\* wrapper of a widget, the wrapper is not tracked, the remaining widgets of
\* the scan are not wrapped and no refresh hook runs in that pass; the next
\* updatePlayers constructs a fresh wrapper for the widget and runs the eager
\* and init hooks on it again.
C28_ThrowDropsWrapper == [][C28_ThrowingScan /\ C28_NextScan]_vars

\* A refresh returned that tracks the second wrapper constructed for a widget,
\* after running the init hook of the last tweak on it.
C28_Witness ==
    /\ pass = "refresh" /\ ~threw
    /\ \E k \in 1..Len(players) :
          /\ players[k].id = 2
          /\ \E i \in Invocations("onPlayerInit") :
                trace[i] = Event("onPlayerInit", tweaks[Len(tweaks)], 2,
                                 players[k].element)

\* The hook invocations the constructor of the app makes when every hook
\* returns: the two app hooks of every tweak, and the eager and init hooks of
\* every tweak on a wrapper of every widget of the page.
LoadReturned(tr, els) ==
    /\ \A h \in AppInitHooks : \A t \in TweakIds :
          CountHook(tr, h, t, 0) = 1
    /\ \A e \in Range(els) : \A h \in PlayerInitHooks : \A t \in TweakIds :
          CountHook(tr, h, t, e) = 1

\* What holds in every state: a handler is registered only for an app whose
\* construction returned, and at most one.
C29_RegisteredState ==
    /\ listeners \in {0, 1}
    /\ listeners = 1 <=> appState = "running"
    /\ appState = "failed" => pass \notin {"refresh"}

\* What holds of every step: the page load registers the handler exactly when
\* none of its hooks threw, after all of them were invoked and the widgets of
\* the page are tracked; nothing else registers one; a refresh is processed
\* only by an app whose construction returned, and after a construction that
\* threw a signal changes nothing.
C29_RegisteredStep ==
    /\ pass' = "load" =>
          /\ listeners' = listeners + 1 <=> ~threw'
          /\ threw' => (listeners' = 0 /\ appState' = "failed")
          /\ ~threw' =>
                /\ LoadReturned(trace', page)
                /\ \A e \in Range(page) :
                      \E k \in 1..Len(players') : players'[k].element = e
    /\ pass' # "load" => listeners' = listeners
    /\ pass' = "refresh" => appState = "running"
    /\ appState = "failed" =>
          /\ appState' = "failed"
          /\ players' = players /\ constructed' = constructed
          /\ trace' = <<>>

\* C29: the handler of the refresh signal is registered only after all app
\* eager hooks, all app init hooks and the initial updatePlayers returned
\* normally; when any of them throws during the construction of the app, the
\* handler is never registered and no later refresh signal is processed.
C29_RegisteredLast == []C29_RegisteredState /\ [][C29_RegisteredStep]_vars

\* A refresh signal arrived after a construction that threw, and was dropped.
C29_Witness ==
    /\ appState = "failed"
    /\ pass = "dropped"
    /\ listeners = 0
    /\ page # <<>>

RefreshHooks == {"onAppRefresh", "onPlayerRefresh"}

\* What holds in every state: only a refresh has invoked refresh hooks.
C30_RefreshState ==
    pass # "refresh" =>
        \A i \in 1..Len(trace) : trace[i].hook \notin RefreshHooks

\* What holds of every step: a wrapper that becomes tracked has had the eager
\* and the init hook of every tweak in that step, and a wrapper that gets a
\* refresh hook is tracked and, when it became tracked in this step, has had
\* them all before.
C30_RefreshStep ==
    /\ \A k \in (Len(players) + 1)..Len(players') :
          \A h \in PlayerInitHooks : \A t \in TweakIds :
              \E j \in 1..Len(trace') :
                  trace'[j] = Event(h, t, players'[k].id, players'[k].element)
    /\ \A i \in 1..Len(trace') :
          trace'[i].hook = "onPlayerRefresh" =>
              LET p == <<trace'[i].target, trace'[i].element>>
              IN  /\ p \in Range(Refs(players'))
                  /\ \/ p \in Range(Refs(players))
                     \/ \A h \in PlayerInitHooks : \A t \in TweakIds :
                           \E j \in 1..(i - 1) :
                               trace'[j] = Event(h, t, p[1], p[2])

\* C30: refresh hooks run only inside refreshHandler (the page load invokes
\* neither onAppRefresh nor onPlayerRefresh), and every onPlayerRefresh(p) on
\* a tracked player p comes after onPlayerEagerInit(p) and onPlayerInit(p)
\* of every tweak.
C30_RefreshAfterInit == []C30_RefreshState /\ [][C30_RefreshStep]_vars

\* A refresh ran the refresh hook of the last tweak on a wrapper it had
\* constructed itself, next to a wrapper tracked since the page load.
C30_Witness ==
    /\ pass = "refresh"
    /\ \E i \in Invocations("onPlayerRefresh") :
          /\ trace[i].element \in Discovered
          /\ trace[i].tweak = tweaks[Len(tweaks)]
    /\ \E i \in Invocations("onPlayerRefresh") :
          trace[i].element \notin Discovered

UIOps == {"toggleUI", "hideUI", "showUI"}

\* What the claim says of a step: when the observer callback of a tracked
\* wrapper discards a batch made by the native widget, which it does when the
\* flag was set, something is wrong; and after a UI operation that changed no
\* style the flag is not set.
C31_IgnoreStep ==
    /\ (uiLast'.op = "native" /\ Tracked(uiLast'.element) # {}) =>
          \A k \in Tracked(uiLast'.element) :
              ~players[k].ignoreNextUIMutation
    /\ (uiLast'.op \in UIOps
           /\ display'[uiLast'.element] = display[uiLast'.element]) =>
          \A k \in Tracked(uiLast'.element) :
              ~players'[k].ignoreNextUIMutation

\* C31 (as claimed): the one-shot ignore flag suppresses only mutations the
\* wrapper made itself in hideUI or showUI: every batch UIMutationHandler
\* discards because the flag is set holds only such mutations, and the flag
\* is not left set after a hideUI or showUI that changed no style.
C31_IgnoreOnlyOwn == [][C31_IgnoreStep]_vars

\* C32 (as claimed): a showUI that ends a run of two or more hideUI calls
\* leaves every UI element with the style.display it had before the first of
\* them.
C32_HideIdempotent ==
    (hideRun.shown /\ hideRun.hides >= 2) =>
        display[MoviePlayer] = hideRun.before

\* The rate of the ladder next to a rate: the lowest one above it, or the
\* highest of the ladder if there is none; the highest one below it, or the
\* lowest of the ladder if there is none.
Neighbour(ladder, rate, direction) ==
    LET above == {r \in Range(ladder) : r > rate}
        below == {r \in Range(ladder) : r < rate}
    IN  IF direction = 1
        THEN IF above = {} THEN ladder[Len(ladder)]
             ELSE CHOOSE r \in above : \A q \in above : r <= q
        ELSE IF below = {} THEN ladder[1]
             ELSE CHOOSE r \in below : \A q \in below : r >= q

\* C33 (as claimed): a step of the modded player that sets the rate sets it to
\* the neighbour on the ladder of the rate it had, whether that rate was on
\* the ladder or not: the lowest rate of the ladder above it for +1 (its
\* highest if there is none), the highest below it for -1 (its lowest if there
\* is none).
C33_StepToNeighbour ==
    [][(/\ modded
        /\ mediaLast'.op = "stepPlaybackRate"
        /\ mediaLast'.calls # <<>>)
       => videoRate' = Neighbour(playbackRates, videoRate, mediaLast'.arg)]_vars

\* What nextRate does keep: from a rate of the ladder it goes to the neighbour,
\* and from any rate an increase does.
C33_StepFromLadder ==
    [][(/\ modded
        /\ mediaLast'.op = "stepPlaybackRate"
        /\ mediaLast'.calls # <<>>
        /\ videoRate \in Range(playbackRates) \/ mediaLast'.arg = 1)
       => videoRate' = Neighbour(playbackRates, videoRate, mediaLast'.arg)]_vars

\* Whether a rate lies outside the range of the native widget, 0.25 to 2.
OutsideNativeRange(rate) == rate < 25 \/ rate > 200

\* C34 (as claimed): a step of the modded player leaves the rate unchanged
\* when the next rate of the ladder lies outside the native range and the
\* timer of the tweak was started less than 500 ms ago; every other step sets
\* the rate to the next rate of the ladder; and the timer is restarted only by
\* steps that end on 0.25 or 2.
C34_ThrottleAsStated ==
    [][/\ (modded /\ mediaLast'.op = "stepPlaybackRate") =>
             LET new == nextRate(playbackRates, videoRate, mediaLast'.arg)
             IN  IF OutsideNativeRange(new) /\ timerRecent
                 THEN videoRate' = videoRate
                 ELSE videoRate' = new
       /\ (~timerRecent /\ timerRecent') =>
             /\ modded /\ mediaLast'.op = "stepPlaybackRate"
             /\ videoRate' \in {25, 200}]_vars

\* What holds of a step of the modded player.
C34_ThrottleStep ==
    (modded /\ mediaLast'.op = "stepPlaybackRate") =>
        LET new == nextRate(playbackRates, videoRate, mediaLast'.arg)
        IN  IF OutsideNativeRange(new) /\ timerRecent
            THEN /\ videoRate' = videoRate
                 /\ mediaLast'.calls = <<>>
                 /\ timerRecent'
            ELSE /\ adState = -1 => videoRate' = new
                 /\ adState # -1 =>
                       (videoRate' = videoRate /\ mediaLast'.calls = <<>>)
                 /\ timerRecent' <=> (timerRecent \/ new \in {25, 200})

\* What holds of any other step: it does not restart the timer.
C34_TimerStep ==
    (~timerRecent /\ timerRecent') =>
        /\ modded /\ mediaLast'.op = "stepPlaybackRate"
        /\ nextRate(playbackRates, videoRate, mediaLast'.arg) \in {25, 200}

\* C34: a step of the modded player leaves the rate unchanged when the next
\* rate of the ladder lies outside the native range and the timer of the
\* tweak was started less than 500 ms ago; every other step hands the next
\* rate of the ladder to the modded setter, which sets it unless an
\* advertisement plays; and the timer is restarted only by such a step whose
\* next rate is 0.25 or 2.
C34_Throttle == [][C34_ThrottleStep /\ C34_TimerStep]_vars

\* A step up from 2 has been held back: no advertisement plays, the timer was
\* started less than 500 ms ago, and the step called nothing on the widget.
C34_Witness ==
    /\ modded /\ adState = -1
    /\ mediaLast.op = "stepPlaybackRate" /\ mediaLast.arg = 1
    /\ mediaLast.calls = <<>>
    /\ videoRate = 200
    /\ timerRecent

\* What updateTDs does keep: the active display of a record is its native or
\* its effective one, and updateTDs(player), run in any state, leaves every
\* record of the player with the native display active when an advertisement
\* plays and with the effective one otherwise.
C35_ActiveAfterUpdate ==
    /\ \A k \in 1..Len(tweakedTDs) : tweakedTDs[k].active \in {"native", "eff"}
    /\ \A p \in 1..constructed[MoviePlayer] :
          LET st == updateTDs(TDStart, p, adState)
          IN  \A k \in 1..Len(st.tweaked) :
                  st.tweaked[k].player = p =>
                      st.tweaked[k].active =
                          IF adState # -1 THEN "native" ELSE "eff"

\* C35 (as claimed): the active display of every record is its native or its
\* effective one, updateTDs(player) leaves the records of the player with the
\* native display active during an advertisement and the effective one
\* otherwise, and no effective display is shown while an advertisement plays.
C35_NoEffDuringAds ==
    /\ C35_ActiveAfterUpdate
    /\ adState # -1 =>
          \A k \in 1..Len(tweakedTDs) :
              ~(tweakedTDs[k].active = "eff" /\ tweakedTDs[k].effInDom)

\* What holds in every state: the URL was rewritten at most once since the
\* last timeupdate of the main video, and only after the interval was started.
C36_SaveState ==
    /\ urlWrites <= 1
    /\ urlWrites = 1 => (saveBound > 0 /\ progressSaved = "true")

\* What holds of every step: a run of saveProgressOnUrl rewrites the URL only
\* on a watch page and only when progressSaved is not set, and on another page
\* it leaves progressSaved as it is; nothing else rewrites the URL.
C36_SaveStep ==
    /\ saveTick' # saveTick =>
          /\ urlWrites' > urlWrites <=>
                (isWatchPage /\ progressSaved # "true")
          /\ ~isWatchPage =>
                (progressSaved' = progressSaved /\ urlWrites' = urlWrites)
          /\ progressSaved = "true" =>
                (progressSaved' = progressSaved /\ urlWrites' = urlWrites)
    /\ saveTick' = saveTick => urlWrites' <= urlWrites

\* C36: SaveProgressOnURL rewrites the URL at most once between two
\* timeupdate events of the main video (a run of the interval with no
\* timeupdate since the last rewrite does not rewrite it again) and never
\* while the page is not a watch page; a run that is skipped on such a page
\* leaves progressSaved unchanged.
C36_SaveOncePerUpdate == []C36_SaveState /\ [][C36_SaveStep]_vars

\* The URL has been rewritten since the last timeupdate, the user has left the
\* watch page, and the interval has run an even number of times: at least
\* once more since the rewrite or before it.
C36_Witness ==
    /\ urlWrites = 1
    /\ progressSaved = "true"
    /\ ~isWatchPage
    /\ ~saveTick

\* The attempts retryOnFail makes for SaveProgressOnURL.
C37_BindState ==
    /\ saveBound <= 1
    /\ retryCalls <= SaveTries
    /\ saveBound = 1 <=> retrySuccess
    /\ retrySuccess => retryTimer = NoTimer
    /\ retryCalls = SaveTries => retryTimer = NoTimer

\* What holds of every step: the attempt made in the page load fails; an
\* attempt made by a timeout starts the listener and the interval exactly when
\* the main player is tracked and has its video element; no attempt follows a
\* success; nothing but an attempt starts them.
C37_BindStep ==
    /\ retryCalls' # retryCalls =>
          /\ retryCalls' = retryCalls + 1
          /\ saveBound = 0
          /\ pass' = "load" => (retryCalls = 0 /\ saveBound' = 0)
          /\ pass' # "load" =>
                (saveBound' = 1 <=> (mainPlayer(players) # 0 /\ hasVideo))
    /\ retryCalls' = retryCalls => saveBound' = saveBound

\* C37: SaveProgressOnURL starts its interval and its timeupdate listener at
\* most once, at the first attempt of retryOnFail at which the main player is
\* tracked and has a video element; the first attempt, made in onAppInit
\* before the initial discovery, always fails, and when all of the at most 10
\* attempts fail they are never started, even if a main player is discovered
\* later.
C37_BindOnce == []C37_BindState /\ [][C37_BindStep]_vars

\* All ten attempts have failed, and the main player has been discovered with
\* its video element since.
C37_Witness ==
    /\ retryCalls = SaveTries
    /\ saveBound = 0
    /\ retryTimer = NoTimer
    /\ mainPlayer(players) # 0
    /\ hasVideo

\* C38: stepVolume sends the key of volume-down for a direction of exactly
\* -1 and the key of volume-up for every other direction; so a wheel event
\* with a deltaY of zero and a volume set to the value it has both send the
\* key of volume-up, and a wheel event whose path holds one of the scrollable
\* elements of the player sends no key and leaves the volume alone.
C38_VolumeStep ==
    LET c == mediaLast'.calls
        Key(k) == << [call |-> "keydown", arg |-> k] >>
    IN  /\ mediaLast'.op = "stepVolume"
           => c = Key(IF mediaLast'.arg = -1 THEN 40 ELSE 38)
        /\ mediaLast'.op = "wheel"
           => c = Key(IF mediaLast'.arg > 0 THEN 40 ELSE 38)
        /\ (mediaLast'.op = "setVolume" /\ mediaLast'.arg = volume)
           => /\ Nudges(c) = {1}
              /\ c[1].arg = 38
        /\ mediaLast'.op = "wheelOverScrollable"
           => /\ c = <<>>
              /\ volume' = volume

C38_UpUnlessMinusOne == [][C38_VolumeStep]_vars

\* A wheel event with a deltaY of zero has sent the key of volume-up.
C38_Witness ==
    /\ mediaLast.op = "wheel"
    /\ mediaLast.arg = 0
    /\ mediaLast.calls = << [call |-> "keydown", arg |-> 38] >>

\* C39: every newly wrapped player is initialised to the current default rate
\* at its init hook: after the hook the rate of its video is the default,
\* except while an advertisement is active, when its rate is left unchanged.
C39_InitToDefault ==
    \A r \in defInits :
        r.after = (IF r.ad # -1 THEN r.before ELSE r.default)

\* What DefaultPlaybackRate does keep. The default rate is one value for all
\* players; it changes only when a "ratechange" event of the video of a
\* widget with the listener is fired, to the rate of that video.
C39_DefaultFollowsRatechange ==
    [][defaultRate' # defaultRate
       => \E e \in rcPending \cap rcBound :
             /\ defaultRate' = rateOf[e]
             /\ rcPending' = rcPending \ {e}]_vars

\* What the init hook does keep: the rate is the default when ModPlaybackRate
\* has replaced the setter or the default is a rate of the widget, and is left
\* unchanged during an advertisement.
C39_InitWhenSettable ==
    \A r \in defInits :
        \/ r.ad # -1 /\ r.after = r.before
        \/ r.ad = -1 /\ r.after = r.default
        \/ /\ r.ad = -1
           /\ "ModPlaybackRate" \notin Range(appTweaks)
           /\ r.default \notin NativeRates
           /\ r.after \in NativeRates

TypeOK ==
    /\ appState \in {"none", "running", "failed"}
    /\ listeners \in 0..1
    /\ IsInjective(page)
    /\ Range(page) \subseteq Elements
    /\ throwsLeft \in 0..MaxThrows
    /\ display \in [Elements -> [UIChildren -> Displays]]
    /\ oldDisplayStyle \in [Elements -> [UIChildren -> Displays \cup {Undefined}]]

==========================================================================
